---------------------------- MODULE Spec2Model ----------------------------
(***************************************************************************)
(* Verification development for the voice-onboarding / KYC application.    *)
(*                                                                         *)
(* Three subsystems are modelled, each with its own specification:         *)
(*   SpecVerify    - the server-side verification pipeline (full-verify)   *)
(*   SpecExtractor - the voice field extractor (useFieldExtractor)         *)
(*   SpecKyc       - the KYC flow controller (KycPage, both variants)      *)
(* and SpecParse applies the pipeline's response parser to every text.     *)
(*                                                                         *)
(* JavaScript strings are modelled as sequences of one-character strings,  *)
(* so that trimming, case folding, splitting and digit stripping are       *)
(* computed and not assumed.  null, undefined and '' of a string-typed     *)
(* field are all the empty sequence (all three are falsy and are mapped    *)
(* to '' by the code's "?? ''" before use).                                *)
(***************************************************************************)
EXTENDS Integers, Sequences, FiniteSets, TLC

VARIABLES
    \* ---- verification pipeline (route.ts POST) ----
    vreq,        \* the request body: images present?, declared name
    vpc,         \* "idle" | "extract" | "face" | "done"
    vdoc,        \* per document: extraction progress and result
    vresp,       \* the HTTP response: status and report
    \* ---- onboarding store and voice field extractor ----
    data,                \* OnboardingProvider: the four field values
    activeField,         \* OnboardingProvider: the cursor, a field or Null
    transcript,          \* useSpeechRecognition: the final transcript buffer
    interimTranscript,   \* useSpeechRecognition: the interim transcript
    lastTranscriptRef,   \* useFieldExtractor: the last text processed
    timeoutRef,          \* useFieldExtractor: the field whose timer is pending, or Null
    matchedTexts,        \* history: the texts matched since the transcript was last cleared
    matchedTwice,        \* history: one of them was matched a second time
    \* ---- KYC flow controller (KycPage) ----
    env,             \* which page variant runs, and whether window.FaceDetector exists
    kyc,             \* the page's React state (useState and useDocumentOCR values)
    cam,             \* useCamera: isStreaming, the live stream, pending acquisitions, error
    memoStreaming,   \* isStreaming as captured by the memoised voice commands
    capture,         \* the capture handler in flight: its position and locals
    fins,            \* the handleFinalize calls awaiting the verification endpoint
    lastAudit,       \* the last audit request the page issued (logAudit)
    \* ---- parseGptJson on its own ----
    praw,            \* the text of an AI response
    pout,            \* what parseGptJson(praw) did, once called
    \* ---- nameSimilarityPct on its own ----
    simA,           \* nameSimilarityPct: its first argument
    simB,           \* nameSimilarityPct: its second argument
    simOut,         \* its results for (simA, simB) and (simB, simA), once called
    \* ---- audit endpoints (verify POST, audit-log GET) ----
    auditLog,       \* part_005: the in-memory audit log
    auditPending,   \* the POST requests whose body is still being read
    auditNow,       \* the server clock
    auditListed,    \* the logs of the last GET response
    \* ---- OnboardingPage voice loop ----
    isListening,    \* useSpeechRecognition: the recogniser reported onstart and not yet an end
    isSpeaking,     \* useTextToSpeech: a prompt is being fetched or played
    recognitions,   \* each SpeechRecognition object start() created: none, starting, running, stopping
    recognitionRef, \* useSpeechRecognition: the recognition stop() would stop, or 0
    utterances,     \* each speak() call: none, fetching, playing (Audio), native (speechSynthesis)
    audioRef,       \* useTextToSpeech: the Audio the next speak() or stop() pauses, or 0
    promptKey,      \* OnboardingPage: index of the prompt last spoken, 0 before mount
    \* ---- the matching loop of useFieldExtractor on its own ----
    gateField,      \* the active field of one run of the matching loop
    gateText,       \* the combined text it runs on
    gateOut,        \* the value each version of the hook stores for them, once run
    \* ---- useCamera on its own ----
    streams,        \* useCamera: each MediaStream getUserMedia was asked for: free, pending, live
    streamRef,      \* useCamera: the stream the hook holds, or 0
    isStreaming,    \* useCamera: the isStreaming state
    facing,         \* useCamera: the facing state
    cameraError     \* useCamera: whether error is set

verifyVars == <<vreq, vpc, vdoc, vresp>>
extractorVars == <<data, activeField, transcript, interimTranscript, lastTranscriptRef,
                   timeoutRef, matchedTexts, matchedTwice>>

kycVars == <<env, kyc, cam, memoStreaming, capture, fins, lastAudit>>

parseVars == <<praw, pout>>

similarityVars == <<simA, simB, simOut>>

auditVars == <<auditLog, auditPending, auditNow, auditListed>>

voiceVars == <<isListening, isSpeaking, recognitions, recognitionRef, utterances, audioRef,
               promptKey>>

gateVars == <<gateField, gateText, gateOut>>

cameraVars == <<streams, streamRef, isStreaming, facing, cameraError>>

vars == <<verifyVars, extractorVars, kycVars, parseVars, similarityVars, auditVars, voiceVars, gateVars, cameraVars>>
\* what each subsystem leaves alone
notVerify == <<extractorVars, kycVars, parseVars, similarityVars, auditVars, voiceVars, gateVars, cameraVars>>
notExtractor == <<verifyVars, kycVars, parseVars, similarityVars, auditVars, voiceVars, gateVars, cameraVars>>
notKyc == <<verifyVars, extractorVars, parseVars, similarityVars, auditVars, voiceVars, gateVars, cameraVars>>
notParse == <<verifyVars, extractorVars, kycVars, similarityVars, auditVars, voiceVars, gateVars, cameraVars>>
notSimilarity == <<verifyVars, extractorVars, kycVars, parseVars, auditVars, voiceVars, gateVars, cameraVars>>
notAudit == <<verifyVars, extractorVars, kycVars, parseVars, similarityVars, voiceVars, gateVars, cameraVars>>
notVoice == <<verifyVars, extractorVars, kycVars, parseVars, similarityVars, auditVars, gateVars, cameraVars>>
notGate == <<verifyVars, extractorVars, kycVars, parseVars, similarityVars, auditVars, voiceVars, cameraVars>>
notCamera == <<verifyVars, extractorVars, kycVars, parseVars, similarityVars, auditVars, voiceVars, gateVars>>

-----------------------------------------------------------------------------
(* Characters and strings                                                  *)

LowerSeq == <<"a","b","c","d","e","f","g","h","i","j","k","l","m",
              "n","o","p","q","r","s","t","u","v","w","x","y","z">>
UpperSeq == <<"A","B","C","D","E","F","G","H","I","J","K","L","M",
              "N","O","P","Q","R","S","T","U","V","W","X","Y","Z">>
DigitChars == {"0","1","2","3","4","5","6","7","8","9"}
Range(s) == {s[i] : i \in DOMAIN s}
LowerChars == Range(LowerSeq)
UpperChars == Range(UpperSeq)

IsDigit(c) == c \in DigitChars
IsUpper(c) == c \in UpperChars
IsLower(c) == c \in LowerChars
IsAlpha(c) == IsUpper(c) \/ IsLower(c)
IsSpace(c) == c = " "

ToUpperChar(c) ==
    IF IsLower(c) THEN UpperSeq[CHOOSE i \in DOMAIN LowerSeq : LowerSeq[i] = c] ELSE c
ToLowerChar(c) ==
    IF IsUpper(c) THEN LowerSeq[CHOOSE i \in DOMAIN UpperSeq : UpperSeq[i] = c] ELSE c

ToUpperCase(s) == [i \in DOMAIN s |-> ToUpperChar(s[i])]
ToLowerCase(s) == [i \in DOMAIN s |-> ToLowerChar(s[i])]

\* s.replace(/\D/g, '')
StripNonDigits(s) == SelectSeq(s, IsDigit)
\* s.replace(/\s/g, '')
StripSpaces(s) == SelectSeq(s, LAMBDA c : ~IsSpace(c))

RECURSIVE TrimLeft(_)
TrimLeft(s) == IF s # <<>> /\ IsSpace(Head(s)) THEN TrimLeft(Tail(s)) ELSE s
RECURSIVE TrimRight(_)
TrimRight(s) ==
    IF s # <<>> /\ IsSpace(s[Len(s)]) THEN TrimRight(SubSeq(s, 1, Len(s) - 1)) ELSE s
\* s.trim()
Trim(s) == TrimRight(TrimLeft(s))

\* s.split(/\s+/).filter(Boolean): the maximal runs of non-space characters
RECURSIVE SplitWordsFrom(_, _, _)
SplitWordsFrom(s, cur, acc) ==
    IF s = <<>> THEN (IF cur = <<>> THEN acc ELSE Append(acc, cur))
    ELSE IF IsSpace(Head(s))
         THEN SplitWordsFrom(Tail(s), <<>>, IF cur = <<>> THEN acc ELSE Append(acc, cur))
         ELSE SplitWordsFrom(Tail(s), Append(cur, Head(s)), acc)
SplitWords(s) == SplitWordsFrom(s, <<>>, <<>>)

Truthy(s) == s # <<>>


-----------------------------------------------------------------------------
(* Regular expressions, as JavaScript's String.prototype.match evaluates   *)
(* them: leftmost match, alternatives in order, greedy repetition with     *)
(* backtracking.  A node is one of                                         *)
(*   [t |-> "cls", set]            one character of the set                *)
(*   [t |-> "seq", parts]          the parts in sequence                   *)
(*   [t |-> "alt", opts]           the first option that leads to a match  *)
(*   [t |-> "rep", re, min, max]   greedy repetition                       *)
(*   [t |-> "bol"], [t |-> "eol"]  ^ and $                                 *)
(* Ends(re, s, i) lists, in the order the engine tries them, the positions *)
(* just after a match of re that starts at position i of s.                *)

Cls(set) == [t |-> "cls", set |-> set]
SeqOf(parts) == [t |-> "seq", parts |-> parts]
AltOf(opts) == [t |-> "alt", opts |-> opts]
Rep(re, min, max) == [t |-> "rep", re |-> re, min |-> min, max |-> max]
Bol == [t |-> "bol"]
Eol == [t |-> "eol"]
\* an upper bound standing for "no upper bound": longer than any text matched
Unbounded == 99
Opt(re) == Rep(re, 0, 1)
Star(re) == Rep(re, 0, Unbounded)
Plus(re) == Rep(re, 1, Unbounded)
\* a literal, case-sensitive and under the i flag
Lit(str) == SeqOf([i \in DOMAIN str |-> Cls({str[i]})])
LitI(str) == SeqOf([i \in DOMAIN str |-> Cls({ToLowerChar(str[i]), ToUpperChar(str[i])})])

\* the capture group's parentheses
Open == [t |-> "open"]
Close == [t |-> "close"]
\* A pattern with its one capture group: pre (group) post.
Pattern(pre, grp, post) == SeqOf(<<pre, Open, grp, Close, post>>)

NoMatch == [ok |-> FALSE, from |-> 0, to |-> 0]

\* The backtracking matcher: todo is the list of expressions still to match
\* from position i of s, cap the capture so far.  The result is the first
\* match in the engine's order: alternatives left to right, repetitions
\* greedy.  (No repeated expression of the patterns below matches the empty
\* string, so the engine's empty-iteration rule never applies.)
RECURSIVE Run(_, _, _, _)
Run(todo, s, i, cap) ==
    IF todo = <<>> THEN cap
    ELSE LET re == Head(todo)
             rest == Tail(todo)
         IN  CASE re.t = "cls" ->
                    IF i <= Len(s) /\ s[i] \in re.set THEN Run(rest, s, i + 1, cap)
                    ELSE NoMatch
               [] re.t = "bol" -> IF i = 1 THEN Run(rest, s, i, cap) ELSE NoMatch
               [] re.t = "eol" -> IF i = Len(s) + 1 THEN Run(rest, s, i, cap) ELSE NoMatch
               [] re.t = "open" -> Run(rest, s, i, [cap EXCEPT !.from = i])
               [] re.t = "close" -> Run(rest, s, i, [cap EXCEPT !.to = i])
               [] re.t = "seq" -> Run(re.parts \o rest, s, i, cap)
               [] re.t = "alt" ->
                    IF re.opts = <<>> THEN NoMatch
                    ELSE LET first == Run(<<Head(re.opts)>> \o rest, s, i, cap)
                         IN  IF first.ok THEN first
                             ELSE Run(<<AltOf(Tail(re.opts))>> \o rest, s, i, cap)
               [] re.t = "rep" ->
                    LET more == IF re.max = 0 THEN NoMatch
                                ELSE Run(<<re.re, Rep(re.re, IF re.min > 0 THEN re.min - 1
                                                             ELSE 0, re.max - 1)>>
                                         \o rest, s, i, cap)
                    IN  IF more.ok THEN more
                        ELSE IF re.min = 0 THEN Run(rest, s, i, cap) ELSE NoMatch

\* match[1] of s.match(pattern), or <<>> when there is no match: the capture
\* of the first match at the leftmost position that has one
Match1(pat, s) ==
    LET at(i) == Run(<<pat>>, s, i, [ok |-> TRUE, from |-> i, to |-> i])
        hits == {i \in 1..(Len(s) + 1) : at(i).ok}
    IN  IF hits = {} THEN <<>>
        ELSE LET m == at(CHOOSE i \in hits : \A j \in hits : i <= j)
             IN  SubSeq(s, m.from, m.to - 1)

-----------------------------------------------------------------------------
(* Voice field extractor: src/hooks/useFieldExtractor.ts (lines 1-166) and *)
(* the onboarding store, src/providers/OnboardingProvider.tsx              *)

Letters == LowerChars \cup UpperChars
WS == {" "}
\* Sample code points of the Devanagari block ऀ-ॿ, by name.
DvMa == "dv_ma"
DvAa == "dv_aa"
DvJha == "dv_jha"
DvE == "dv_e"
DvAnusvara == "dv_anusvara"
DvNa == "dv_na"
DvVa == "dv_va"
DvJa == "dv_ja"
DvVirama == "dv_virama"
DvTa == "dv_ta"
DvI == "dv_i"
DvTha == "dv_tha"
DvRa == "dv_ra"
DvKha == "dv_kha"
DvIi == "dv_ii"
Devanagari == {DvMa, DvAa, DvJha, DvE, DvAnusvara, DvNa, DvVa, DvJa, DvVirama, DvTa,
               DvI, DvTha, DvRa, DvKha, DvIi}

Digit == Cls(DigitChars)
Letter == Cls(Letters)
Space == Cls(WS)
Empty == SeqOf(<<>>)
\* [\s/\-\.]
DateSep == Cls(WS \cup {"/", "-", "."})
\* (?:st|nd|rd|th)?
Ordinal == Opt(AltOf(<<LitI(<<"s","t">>), LitI(<<"n","d">>), LitI(<<"r","d">>),
                       LitI(<<"t","h">>)>>))
\* (?:jan|feb|mar|apr|may|jun|jul|aug|sep|oct|nov|dec)[a-z]*
Month == SeqOf(<<AltOf(<<LitI(<<"j","a","n">>), LitI(<<"f","e","b">>), LitI(<<"m","a","r">>), LitI(<<"a","p","r">>), LitI(<<"m","a","y">>), LitI(<<"j","u","n">>), LitI(<<"j","u","l">>),
                        LitI(<<"a","u","g">>), LitI(<<"s","e","p">>), LitI(<<"o","c","t">>), LitI(<<"n","o","v">>), LitI(<<"d","e","c">>)>>),
                 Star(Letter)>>)

\* const patterns = { name: [...], dob: [...], pan: [...], aadhaar: [...] }
NamePatterns == <<
    \* /(?:my name is|i am|i'm|this is)\s+([a-zA-Z\s]{2,40})/i
    Pattern(SeqOf(<<AltOf(<<LitI(<<"m","y"," ","n","a","m","e"," ","i","s">>), LitI(<<"i"," ","a","m">>),
                            LitI(<<"i","'","m">>), LitI(<<"t","h","i","s"," ","i","s">>)>>), Plus(Space)>>),
            Rep(Cls(Letters \cup WS), 2, 40), Empty),
    \* /(?:mera naam|mera name)\s+([ऀ-ॿ\sa-zA-Z]{2,40})/i
    Pattern(SeqOf(<<AltOf(<<LitI(<<"m","e","r","a"," ","n","a","a","m">>), LitI(<<"m","e","r","a"," ","n","a","m","e">>)>>), Plus(Space)>>),
            Rep(Cls(Devanagari \cup WS \cup Letters), 2, 40), Empty),
    \* /(?:<Marathi: my name>|<variant>)\s+([ऀ-ॿ\s]{2,40})/i
    Pattern(SeqOf(<<AltOf(<<Lit(<<DvMa, DvAa, DvJha, DvE, " ", DvNa, DvAa, DvVa>>),
                            Lit(<<DvMa, DvAa, DvJha, DvAnusvara, " ", DvNa, DvAa, DvVa>>)>>),
                    Plus(Space)>>),
            Rep(Cls(Devanagari \cup WS), 2, 40), Empty),
    \* /^\s*([a-zA-Z\s.]{3,40})\s*$/
    Pattern(SeqOf(<<Bol, Star(Space)>>), Rep(Cls(Letters \cup WS \cup {"."}), 3, 40),
            SeqOf(<<Star(Space), Eol>>)),
    \* /^\s*([a-zA-Z]{3,}\s+[a-zA-Z]{3,}(?:\s+[a-zA-Z]{3,})?)\s*$/
    Pattern(SeqOf(<<Bol, Star(Space)>>),
            SeqOf(<<Rep(Letter, 3, Unbounded), Plus(Space), Rep(Letter, 3, Unbounded),
                    Opt(SeqOf(<<Plus(Space), Rep(Letter, 3, Unbounded)>>))>>),
            SeqOf(<<Star(Space), Eol>>)) >>

DobPatterns == <<
    \* /(\d{1,2}[\s/\-\.]\d{1,2}[\s/\-\.]\d{2,4})/
    Pattern(Empty, SeqOf(<<Rep(Digit, 1, 2), DateSep, Rep(Digit, 1, 2), DateSep,
                           Rep(Digit, 2, 4)>>), Empty),
    \* /(\d{1,2}(?:st|nd|rd|th)?\s+(?:jan|...|dec)[a-z]*\s+\d{2,4})/i
    Pattern(Empty, SeqOf(<<Rep(Digit, 1, 2), Ordinal, Plus(Space), Month, Plus(Space),
                           Rep(Digit, 2, 4)>>), Empty),
    \* /((?:jan|...|dec)[a-z]*\s+\d{1,2}(?:st|nd|rd|th)?\s+\d{2,4})/i
    Pattern(Empty, SeqOf(<<Month, Plus(Space), Rep(Digit, 1, 2), Ordinal, Plus(Space),
                           Rep(Digit, 2, 4)>>), Empty),
    \* /(?:<Hindi: birth date>|<Marathi: birth date>)\s+([\d\s/\-\.]+)/i
    Pattern(SeqOf(<<AltOf(<<Lit(<<DvJa, DvNa, DvVirama, DvMa, " ", DvTa, DvI, DvTha, DvI>>),
                            Lit(<<DvJa, DvNa, DvVirama, DvMa, DvTa, DvAa, DvRa, DvIi, DvKha>>)>>),
                    Plus(Space)>>),
            Plus(Cls(DigitChars \cup WS \cup {"/", "-", "."})), Empty),
    \* /(?:year|saal|varsh)\s+(\d{4})/i
    Pattern(SeqOf(<<AltOf(<<LitI(<<"y","e","a","r">>), LitI(<<"s","a","a","l">>), LitI(<<"v","a","r","s","h">>)>>), Plus(Space)>>),
            Rep(Digit, 4, 4), Empty) >>

PanPatterns == <<
    \* /([A-Z]{5}\s*\d{4}\s*[A-Z])/i
    Pattern(Empty, SeqOf(<<Rep(Letter, 5, 5), Star(Space), Rep(Digit, 4, 4), Star(Space),
                           Letter>>), Empty),
    \* /(?:pan|number)\s*([a-z0-9\s]{10,15})/i
    Pattern(SeqOf(<<AltOf(<<LitI(<<"p","a","n">>), LitI(<<"n","u","m","b","e","r">>)>>), Star(Space)>>),
            Rep(Cls(Letters \cup DigitChars \cup WS), 10, 15), Empty),
    \* /([a-z]{5}\s*\d{4}\s*[a-z])/i
    Pattern(Empty, SeqOf(<<Rep(Letter, 5, 5), Star(Space), Rep(Digit, 4, 4), Star(Space),
                           Letter>>), Empty) >>

AadhaarPatterns == <<
    \* /(\d{4}\s*\d{4}\s*\d{4})/
    Pattern(Empty, SeqOf(<<Rep(Digit, 4, 4), Star(Space), Rep(Digit, 4, 4), Star(Space),
                           Rep(Digit, 4, 4)>>), Empty),
    \* /(\d{12})/
    Pattern(Empty, Rep(Digit, 12, 12), Empty),
    \* /(?:aadhaar|number)\s*(\d[\d\s]{11,15})/i
    Pattern(SeqOf(<<AltOf(<<LitI(<<"a","a","d","h","a","a","r">>), LitI(<<"n","u","m","b","e","r">>)>>), Star(Space)>>),
            SeqOf(<<Digit, Rep(Cls(DigitChars \cup WS), 11, 15)>>), Empty),
    \* /(?:is|hai|ahe)\s*(\d[\d\s]{11,15})/i
    Pattern(SeqOf(<<AltOf(<<LitI(<<"i","s">>), LitI(<<"h","a","i">>), LitI(<<"a","h","e">>)>>), Star(Space)>>),
            SeqOf(<<Digit, Rep(Cls(DigitChars \cup WS), 11, 15)>>), Empty) >>

patterns(field) ==
    CASE field = "name" -> NamePatterns
      [] field = "dob" -> DobPatterns
      [] field = "pan" -> PanPatterns
      [] field = "aadhaar" -> AadhaarPatterns

fieldOrder == <<"name", "dob", "pan", "aadhaar">>
FieldKeys == Range(fieldOrder)
Null == "null"

\* 'Not Recognized'
NotRecognized == <<"N","o","t"," ","R","e","c","o","g","n","i","z","e","d">>

\* s.replace(/\s+/g, ' ')
RECURSIVE CollapseSpaces(_)
CollapseSpaces(s) ==
    IF s = <<>> THEN <<>>
    ELSE IF IsSpace(Head(s))
         THEN <<" ">> \o CollapseSpaces(TrimLeft(s))
         ELSE <<Head(s)>> \o CollapseSpaces(Tail(s))

\* lines 80-90: the text the extractor matches against
FullText(tr, interim) ==
    LET cleanTranscript == Trim(tr)
        cleanInterim == Trim(interim)
        combined == IF cleanInterim # <<>>
                    THEN IF cleanTranscript # <<>>
                         THEN cleanTranscript \o <<" ">> \o cleanInterim
                         ELSE cleanInterim
                    ELSE cleanTranscript
    IN  Trim(CollapseSpaces(combined))

\* value.replace(/[\s-]/g, '')
StripSpacesAndHyphens(s) == SelectSeq(s, LAMBDA c : ~IsSpace(c) /\ c # "-")

\* value.split(' ').map(w => w.charAt(0).toUpperCase() + w.slice(1).toLowerCase()).join(' ')
TitleCase(s) ==
    [i \in DOMAIN s |-> IF i = 1 \/ s[i - 1] = " " THEN ToUpperChar(s[i])
                        ELSE ToLowerChar(s[i])]

\* lines 102-129: validation and formatting of match[1]; <<>> when the gate
\* rejects it (the loop continues with the next pattern)
Formatted(field, m) ==
    LET value == Trim(m) IN
    CASE field = "pan" ->
            LET v == ToUpperCase(StripSpacesAndHyphens(value))
            IN  IF Len(v) # 10 THEN <<>> ELSE v
      [] field = "aadhaar" ->
            LET digits == StripNonDigits(value)
            IN  IF Len(digits) # 12 THEN <<>>
                ELSE SubSeq(digits, 1, 4) \o <<" ">> \o SubSeq(digits, 5, 8)
                     \o <<" ">> \o SubSeq(digits, 9, 12)
      [] field = "name" -> IF Len(value) < 3 THEN <<>> ELSE TitleCase(value)
      [] field = "dob" -> value

\* lines 98-144: the value of the first pattern that matches and passes its
\* gate, or <<>> when none does
RECURSIVE FirstAccepted(_, _, _)
FirstAccepted(field, fieldPatterns, fullText) ==
    IF fieldPatterns = <<>> THEN <<>>
    ELSE LET m == Match1(Head(fieldPatterns), fullText)
             value == IF m = <<>> THEN <<>> ELSE Formatted(field, m)
         IN  IF value # <<>> THEN value
             ELSE FirstAccepted(field, Tail(fieldPatterns), fullText)
AcceptedValue(field, fullText) == FirstAccepted(field, patterns(field), fullText)

\* fieldOrder.find((f) => !data[f]), Null when there is none
NextEmpty(d) ==
    LET empties == SelectSeq(fieldOrder, LAMBDA f : d[f] = <<>>)
    IN  IF empties = <<>> THEN Null ELSE Head(empties)

\* the guard of the timeout effect (line 59)
TimerGuardAnyActive(st) == st.activeField # Null
TimerGuard(st) == st.activeField # Null /\ st.data[st.activeField] = <<>>
\* the guard of the matching loop (line 96)
MatchGuardAnyActive(st) == st.activeField # Null
MatchGuard(st) == st.activeField # Null /\ st.data[st.activeField] = <<>>

\* lines 58-76, on a change of activeField or data: the cleanup of the last
\* run cancels the pending timer, then a timer is started for an active,
\* unfilled field.  timeoutRef is the field whose timer is pending, or Null.
TimeoutEffect(st) ==
    [st EXCEPT !.timeoutRef = IF TimerGuard(st) THEN st.activeField ELSE Null]

\* clearTranscript() of useSpeechRecognition (lines 25-28) and the reset of
\* the duplicate guard that follows it in both callers
Cleared(st) ==
    [st EXCEPT !.transcript = <<>>, !.interimTranscript = <<>>, !.lastTranscriptRef = <<>>,
               !.matchedTexts = {}]

\* the history of the matching loop: fullText is recorded when the loop of
\* lines 96-145 runs on it; once a text has been matched twice the history
\* is no longer kept
Matching(st, fullText) ==
    IF ~MatchGuard(st) \/ st.matchedTwice THEN st
    ELSE IF fullText \in st.matchedTexts
    THEN [st EXCEPT !.matchedTexts = {}, !.matchedTwice = TRUE]
    ELSE [st EXCEPT !.matchedTexts = @ \cup {fullText}]

\* An extraction effect that tries the patterns of every unfilled field, in
\* fieldOrder, instead of those of the active field only.
FirstFieldHit(st, hits, fullText) ==
    IF hits # <<>>
    THEN [Cleared(st) EXCEPT !.data[Head(hits)] = AcceptedValue(Head(hits), fullText),
                             !.timeoutRef = Null, !.wrote = TRUE]
    ELSE IF NextEmpty(st.data) # Null /\ st.activeField = Null
    THEN [st EXCEPT !.activeField = NextEmpty(st.data), !.lastTranscriptRef = fullText]
    ELSE [st EXCEPT !.lastTranscriptRef = fullText]
ExtractEffectAnyField(st) ==
    LET fullText == FullText(st.transcript, st.interimTranscript) IN
    IF fullText = <<>> \/ fullText = st.lastTranscriptRef THEN st
    ELSE FirstFieldHit(st, SelectSeq(fieldOrder, LAMBDA f :
                               st.data[f] = <<>> /\ AcceptedValue(f, fullText) # <<>>),
                       fullText)

\* lines 78-161: one run of the extraction effect
ExtractEffect(st) ==
    LET fullText == FullText(st.transcript, st.interimTranscript) IN
    IF fullText = <<>> \/ fullText = st.lastTranscriptRef THEN st
    ELSE LET seen == Matching([st EXCEPT !.lastTranscriptRef = fullText], fullText)
             value == IF MatchGuard(st) THEN AcceptedValue(st.activeField, fullText)
                      ELSE <<>>
             nextEmpty == NextEmpty(st.data)
         IN  IF value # <<>>
             THEN [Cleared(seen) EXCEPT !.data[st.activeField] = value,
                                        !.timeoutRef = Null, !.wrote = TRUE]
             ELSE IF nextEmpty # Null /\ nextEmpty # st.activeField
                  THEN IF st.activeField = Null \/ st.data[st.activeField] # <<>>
                       THEN [seen EXCEPT !.activeField = nextEmpty]
                       ELSE seen
                  ELSE IF nextEmpty = Null /\ st.activeField # Null
                       THEN [seen EXCEPT !.activeField = Null]
                       ELSE seen

\* The effects of one render: prev is the state of the previous render, cur
\* the state being rendered; cur.wrote says that setField ran since prev
\* (setField always builds a new data object, so the effects that depend on
\* data re-run).  The timeout effect runs before the extraction effect.
StoreChanged(prev, cur) == cur.wrote \/ cur.activeField # prev.activeField
SpeechChanged(prev, cur) ==
    cur.transcript # prev.transcript \/ cur.interimTranscript # prev.interimTranscript
Rendered(cur) == [cur EXCEPT !.wrote = FALSE]
RunTimeoutEffect(changed, st) == IF changed THEN TimeoutEffect(st) ELSE st
RunExtractEffect(changed, st) == IF changed THEN ExtractEffect(st) ELSE st
Effects(prev, cur) ==
    RunExtractEffect(StoreChanged(prev, cur) \/ SpeechChanged(prev, cur),
                     RunTimeoutEffect(StoreChanged(prev, cur), Rendered(cur)))

\* One commit and the re-renders its effects cause, until no state changes.
RECURSIVE Commit(_, _)
Settle(cur, after) ==
    IF StoreChanged(cur, after) \/ SpeechChanged(cur, after)
    THEN Commit(Rendered(cur), after)
    ELSE after
Commit(prev, cur) == Settle(cur, Effects(prev, cur))

\* ---- the speech the recogniser delivers ----
SayName == <<"i"," ","a","m"," ","a","s","h","a"," ","r","a","o">>
SayDob == <<"2","/","1","/","9","9">>
SayPan == <<"a","b","c","d","e","1","2","3","4","f">>
SayAadhaar == <<"1","2","3","4","5","6","7","8","9","0","1","2">>
SayUm == <<"u","m">>
Finals == {<<>>, SayName, SayDob, SayPan, SayAadhaar, SayUm}
Interims == {<<>>, SayUm}
\* the transcript buffer is kept to this length
MaxTranscriptLen == 16

NameAsha == <<"A","s","h","a"," ","R","a","o">>

\* the state after construction: defaultData, no cursor, empty buffers
ExtractorInit ==
    /\ data = [f \in FieldKeys |-> <<>>]
    /\ activeField = Null
    /\ transcript = <<>>
    /\ interimTranscript = <<>>
    /\ lastTranscriptRef = <<>>
    /\ timeoutRef = Null
    /\ matchedTexts = {}
    /\ matchedTwice = FALSE

Cur ==
    [data |-> data, activeField |-> activeField, transcript |-> transcript,
     interimTranscript |-> interimTranscript, lastTranscriptRef |-> lastTranscriptRef,
     timeoutRef |-> timeoutRef, matchedTexts |-> matchedTexts, matchedTwice |-> matchedTwice,
     wrote |-> FALSE]

Install(st) ==
    /\ data' = st.data
    /\ activeField' = st.activeField
    /\ transcript' = st.transcript
    /\ interimTranscript' = st.interimTranscript
    /\ lastTranscriptRef' = st.lastTranscriptRef
    /\ timeoutRef' = st.timeoutRef
    /\ matchedTexts' = st.matchedTexts
    /\ matchedTwice' = st.matchedTwice

\* recognition.onresult (useSpeechRecognition lines 105-120) and the effects
\* of the render it causes
OnResult(final, interim) ==
    LET heard == [Cur EXCEPT !.transcript = IF final # <<>> THEN @ \o final \o <<" ">>
                                            ELSE @,
                             !.interimTranscript = interim]
    IN  /\ Len(heard.transcript) <= MaxTranscriptLen
        /\ Install(Commit(Cur, heard))
        /\ UNCHANGED notExtractor

\* stop() of useSpeechRecognition (lines 141-148) drops the interim text
Stop ==
    /\ Install(Commit(Cur, [Cur EXCEPT !.interimTranscript = <<>>]))
    /\ UNCHANGED notExtractor

\* the 12 s timer callback (useFieldExtractor lines 64-70), for the field the
\* timer was started for, and the effects of the render it causes
TimerExpiry ==
    /\ timeoutRef # Null
    /\ Install(Commit(Cur, [Cleared(Cur) EXCEPT !.data[timeoutRef] = NotRecognized,
                                                !.timeoutRef = Null, !.wrote = TRUE]))
    /\ UNCHANGED notExtractor

ExtractorNext ==
    \/ \E final \in Finals, interim \in Interims : OnResult(final, interim)
    \/ Stop
    \/ TimerExpiry

\* OnboardingProvider line 55
isComplete == \A f \in FieldKeys : data[f] # <<>>

-----------------------------------------------------------------------------
(* Verification pipeline: src/app/api/kyc/full-verify/route.ts             *)

NameRS == <<"R","A","H","U","L"," ","S","H","A","R","M","A">>
NameRK == <<"R","a","h","u","l"," ","K","u","m","a","r">>
NameBlank == <<" ">>
Aadhaar12 == <<"1","2","3","4","5","6","7","8","9","0","1","2">>
AadhaarSpaced == <<"1","2","3","4"," ","5","6","7","8"," ","9","0","1","2">>
AadhaarShort == <<"1","2","3","4","5">>
PanGood == <<"A","B","C","D","E","1","2","3","4","F">>
PanSpoken == <<"a","b","c","d","e"," ","1","2","3","4","f">>
PanBad == <<"A","B","1","2">>
DobText == <<"0","1","/","0","1","/","1","9","9","0">>

Docs == {"doc1", "doc2"}
DocTypes == {"aadhaar", "pan", "unknown", "none"}
DocNames == {<<>>, NameRS, NameRK}
DeclaredNames == {<<>>, NameRS}

\* The fields of a document object the pipeline reads.  The sample answers
\* carry a date of birth and a gender exactly when they carry a name.
DocObj(t, n, a, p) ==
    [doc_type |-> t, name |-> n, aadhaar_number |-> a, pan_number |-> p,
     dob |-> IF n = <<>> THEN <<>> ELSE DobText,
     gender |-> IF n = <<>> THEN <<>> ELSE <<"m","a","l","e">>]

\* What the AI service may answer to a document prompt: an Aadhaar-like or a
\* PAN-like object of any doc_type, with any of its fields missing.
DocObjs ==
    {DocObj(t, n, a, <<>>) :
        t \in DocTypes, n \in DocNames, a \in {<<>>, AadhaarSpaced, AadhaarShort}}
    \cup
    {DocObj(t, n, <<>>, p) :
        t \in DocTypes, n \in DocNames, p \in {PanSpoken, PanBad}}

FaceObjs == [same_person : {"true", "false", "absent"}]

\* The shape of the text the AI service returned around the object.
\*   plain    the JSON text of the object
\*   fenced   the JSON text inside ``` fences
\*   wrapped  prose around the JSON text of the object
\*   broken   braces present, but the text between them is not JSON
\*   nojson   no braces at all (also the empty string)
\*   jsonnull valid JSON that is not an object (null)
Shapes == {"plain", "fenced", "wrapped", "broken", "nojson", "jsonnull"}

UnknownObj == DocObj("unknown", <<>>, <<>>, <<>>)

\* A response text is a sequence of lexical units:
\*   fence   a ``` code fence           json    the word after an opening fence
\*   nl      a line break            {  }    braces
\*   member  a well-formed "key": value list
\*   prose   any other text          null    the JSON literal null
RawTokens == {"fence", "json", "nl", "{", "}", "member", "prose", "null"}
MaxRawLen == 4
RawTexts == UNION {[1..n -> RawTokens] : n \in 0..MaxRawLen}

IsWs(t) == t = "nl"
SetMin(S) == CHOOSE x \in S : \A y \in S : x <= y
SetMax(S) == CHOOSE x \in S : \A y \in S : x >= y

\* the index just past the whitespace that starts at i
RECURSIVE SkipWs(_, _)
SkipWs(s, i) == IF i <= Len(s) /\ IsWs(s[i]) THEN SkipWs(s, i + 1) ELSE i

\* .replace(/^```(?:json)?\s*/m, ''): the first fence that starts a line,
\* the word json after it and the whitespace after that
StripOpeningFence(s) ==
    LET starts == {i \in 1..Len(s) : s[i] = "fence" /\ (i = 1 \/ s[i - 1] = "nl")}
    IN  IF starts = {} THEN s
        ELSE LET i == SetMin(starts)
                 afterWord == IF i + 1 <= Len(s) /\ s[i + 1] = "json" THEN i + 2 ELSE i + 1
             IN  SubSeq(s, 1, i - 1) \o SubSeq(s, SkipWs(s, afterWord), Len(s))

\* .replace(/\s*```$/m, ''): the first fence that ends a line, with the
\* whitespace before it
StripClosingFence(s) ==
    LET ends == {k \in 1..Len(s) : s[k] = "fence" /\ (k = Len(s) \/ s[k + 1] = "nl")}
    IN  IF ends = {} THEN s
        ELSE LET k == SetMin(ends)
                 a == SetMin({b \in 1..k : \A m \in b..(k - 1) : IsWs(s[m])})
             IN  SubSeq(s, 1, a - 1) \o SubSeq(s, k + 1, Len(s))

\* .trim()
RECURSIVE TrimWsLeft(_)
TrimWsLeft(s) == IF s # <<>> /\ IsWs(Head(s)) THEN TrimWsLeft(Tail(s)) ELSE s
RECURSIVE TrimWsRight(_)
TrimWsRight(s) ==
    IF s # <<>> /\ IsWs(s[Len(s)]) THEN TrimWsRight(SubSeq(s, 1, Len(s) - 1)) ELSE s
Cleaned(raw) == TrimWsLeft(TrimWsRight(StripClosingFence(StripOpeningFence(raw))))

\* JSON.parse: whitespace between the units is insignificant; an object, the
\* value null, or a SyntaxError
JsonParse(s) ==
    LET t == SelectSeq(s, LAMBDA u : ~IsWs(u))
    IN  CASE t = <<"{", "}">>           -> [kind |-> "object", members |-> FALSE]
          [] t = <<"{", "member", "}">> -> [kind |-> "object", members |-> TRUE]
          [] t = <<"null">>             -> [kind |-> "null"]
          [] OTHER                      -> [kind |-> "throw"]

\* cleaned.match(/\{[\s\S]*\}/): from the first { to the last } after it;
\* the empty sequence when there is no match
ObjectSubstring(s) ==
    LET opens == {i \in 1..Len(s) : s[i] = "{"}
    IN  IF opens = {} THEN <<>>
        ELSE LET f == SetMin(opens)
                 closes == {i \in (f + 1)..Len(s) : s[i] = "}"}
             IN  IF closes = {} THEN <<>> ELSE SubSeq(s, f, SetMax(closes))

\* parseGptJson over a response text.  The second JSON.parse runs inside the
\* catch block and nothing guards it.
ParseGptText(raw) ==
    LET cleaned == Cleaned(raw)
        direct == JsonParse(cleaned)
        match == ObjectSubstring(cleaned)
    IN  IF direct.kind # "throw" THEN direct
        ELSE IF match # <<>> THEN JsonParse(match)
        ELSE [kind |-> "default"]

\* a text of each shape
ShapeText(shape) ==
    CASE shape = "plain"    -> <<"{", "member", "}">>
      [] shape = "fenced"   -> <<"fence", "json", "nl", "{", "member", "}", "nl", "fence">>
      [] shape = "wrapped"  -> <<"prose", "{", "member", "}", "prose">>
      [] shape = "broken"   -> <<"prose", "{", "prose", "}">>
      [] shape = "nojson"   -> <<"prose">>
      [] shape = "jsonnull" -> <<"null">>

\* parseGptJson on an answer of the given shape around the object raw.obj
ParseGptJson(raw) ==
    LET parsed == ParseGptText(ShapeText(raw.shape))
    IN  CASE parsed.kind = "object"  -> [kind |-> "obj", obj |-> raw.obj]
          [] parsed.kind = "default" -> [kind |-> "obj", obj |-> UnknownObj]
          [] parsed.kind = "null"    -> [kind |-> "null"]
          [] parsed.kind = "throw"   -> [kind |-> "throw"]

NotParsed == [kind |-> "pending"]
ParseInit == praw \in RawTexts /\ pout = NotParsed
\* the parser at rest, for the specifications of the other subsystems
ParseIdle == praw = <<>> /\ pout = NotParsed

\* one call of parseGptJson
ParseResponse ==
    /\ pout = NotParsed
    /\ pout' = ParseGptText(praw)
    /\ UNCHANGED praw
    /\ UNCHANGED notParse

ParseNext == ParseResponse

\* Math.round(n / d) for n >= 0, d > 0
RoundDiv(n, d) == (2 * n + d) \div (2 * d)

Min(a, b) == IF a <= b THEN a ELSE b
Max(a, b) == IF a >= b THEN a ELSE b

\* estimateConfidence
EstimateConfidence(docData) ==
    IF docData.doc_type = "unknown" \/ docData.doc_type = "none" THEN 0
    ELSE LET fields == IF docData.doc_type = "aadhaar"
                       THEN <<docData.name, docData.aadhaar_number, docData.dob, docData.gender>>
                       ELSE <<docData.name, docData.pan_number, docData.dob>>
             filled == Cardinality({i \in DOMAIN fields : Truthy(fields[i])})
         IN  Min(60 + RoundDiv(filled * 35, Len(fields)), 95)

\* `${digits.slice(0, 4)} ${digits.slice(4, 8)} ${digits.slice(8, 12)}`
FormatAadhaar(digits) ==
    SubSeq(digits, 1, 4) \o <<" ">> \o SubSeq(digits, 5, 8) \o <<" ">> \o SubSeq(digits, 9, 12)

\* extractDocument, after the last AI call: normalise the numbers
NormalizeDoc(result) ==
    LET digits == StripNonDigits(result.aadhaar_number)
        a == IF Truthy(result.aadhaar_number) /\ Len(digits) = 12
             THEN FormatAadhaar(digits) ELSE result.aadhaar_number
        p == IF Truthy(result.pan_number)
             THEN ToUpperCase(StripSpaces(result.pan_number)) ELSE result.pan_number
    IN  [result EXCEPT !.aadhaar_number = a, !.pan_number = p]

\* /^[A-Z]{5}[0-9]{4}[A-Z]$/.test(pan.replace(/\s/g, '').toUpperCase())
ValidatePanFormat(pan) ==
    LET s == ToUpperCase(StripSpaces(pan))
    IN  /\ Len(s) = 10
        /\ \A i \in 1..5 : IsUpper(s[i])
        /\ \A i \in 6..9 : IsDigit(s[i])
        /\ IsUpper(s[10])

\* /^\d{12}$/.test(aadhaar.replace(/\D/g, ''))
ValidateAadhaarFormat(aadhaar) == Len(StripNonDigits(aadhaar)) = 12

\* A similarity that compares the words as written, case included.
NameSimilarityCaseSensitive(a, b) ==
    IF ~Truthy(a) \/ ~Truthy(b) THEN 0
    ELSE LET aWords == Range(SplitWords(a))
             bWords == Range(SplitWords(b))
             overlap == Cardinality(aWords \cap bWords)
             union == Cardinality(aWords \cup bWords)
         IN  RoundDiv(overlap * 100, Max(union, 1))

\* nameSimilarityPct
NameSimilarityPct(a, b) ==
    IF ~Truthy(a) \/ ~Truthy(b) THEN 0
    ELSE LET aWords == Range(SplitWords(ToLowerCase(a)))
             bWords == Range(SplitWords(ToLowerCase(b)))
             overlap == Cardinality(aWords \cap bWords)
             union == Cardinality(aWords \cup bWords)
         IN  RoundDiv(overlap * 100, Max(union, 1))

\* The arguments POST passes: names after .trim(), here over a small
\* alphabet, the empty name included.
NameChars == {"a", "A", "b", " "}
MaxNameLen == 3
TrimmedNames ==
    {n \in UNION {[1..k -> NameChars] : k \in 0..MaxNameLen} : Trim(n) = n}

NotCompared == [called |-> FALSE]
SimilarityInit == simA \in TrimmedNames /\ simB \in TrimmedNames /\ simOut = NotCompared
\* the function at rest, for the specifications of the other subsystems
SimilarityIdle == simA = <<>> /\ simB = <<>> /\ simOut = NotCompared

\* one call of nameSimilarityPct each way round
CompareNames ==
    /\ simOut = NotCompared
    /\ simOut' = [called |-> TRUE, ab |-> NameSimilarityPct(simA, simB),
                                  ba |-> NameSimilarityPct(simB, simA)]
    /\ UNCHANGED <<simA, simB>>
    /\ UNCHANGED notSimilarity

SimilarityNext == CompareNames


\* compareFaces: the parsed answer, or the permissive default when the call or
\* the parsing inside the try block throws (reading a property of null throws).
FaceSkipped == "Face check skipped (error)"
\* A fallback that does not vouch for the face.
FaceFallbackStrict ==
    [verified |-> FALSE, confidence |-> 0, reason |-> FaceSkipped, model |-> "fallback"]
FaceFallback ==
    [verified |-> TRUE, confidence |-> 70, reason |-> FaceSkipped, model |-> "fallback"]
FaceFromAnswer(same_person) ==
    [verified |-> (same_person = "true"),
     confidence |-> IF same_person = "absent" THEN 0 ELSE 85,
     reason |-> IF same_person = "absent" THEN "" ELSE "stated",
     model |-> "gpt-4o-vision"]

\* What the face-comparison call does: it throws, or it returns a text.
FaceThrew == [threw |-> TRUE]
FaceOutcomes == {FaceThrew} \cup [threw : {FALSE}, shape : Shapes, obj : FaceObjs]

\* compareFaces
CompareFaces(outcome) ==
    IF outcome.threw THEN FaceFallback
    ELSE LET parsed == ParseGptJson([shape |-> outcome.shape, obj |-> outcome.obj])
         IN  IF parsed.kind # "obj" THEN FaceFallback
             ELSE IF outcome.shape = "nojson" THEN FaceFromAnswer("absent")
             ELSE FaceFromAnswer(parsed.obj.same_person)

\* A decision that forgets the face match.
ApprovedIgnoringFace(aadhaarValid, panValid, nameMatch, faceVerified) ==
    aadhaarValid /\ panValid /\ nameMatch

\* const approved = aadhaarValid && panValid && nameMatch && faceVerified
Approved(aadhaarValid, panValid, nameMatch, faceVerified) ==
    aadhaarValid /\ panValid /\ nameMatch /\ faceVerified

\* POST, lines 215-289: validation, cross-check, decision and report.
BuildReport(aadhaarData, panData, faceResult, onboarding_name) ==
    LET aadhaarValid == /\ aadhaarData.doc_type = "aadhaar"
                        /\ ValidateAadhaarFormat(aadhaarData.aadhaar_number)
        panNumber == Trim(panData.pan_number)
        panValid == \/ panData.doc_type # "unknown"
                    \/ (Len(panNumber) > 0 /\ ValidatePanFormat(panNumber))
        aadhaarName == Trim(aadhaarData.name)
        panName == Trim(panData.name)
        onboardingNameStr == Trim(onboarding_name)
        similarity == IF Truthy(aadhaarName) /\ Truthy(panName)
                      THEN NameSimilarityPct(aadhaarName, panName)
                      ELSE IF Truthy(aadhaarName) /\ Truthy(onboardingNameStr)
                      THEN NameSimilarityPct(aadhaarName, onboardingNameStr)
                      ELSE 0
        nameMatch == IF \/ Truthy(aadhaarName) /\ Truthy(panName)
                        \/ Truthy(aadhaarName) /\ Truthy(onboardingNameStr)
                     THEN similarity >= 40
                     ELSE TRUE
        faceVerified == faceResult.verified
        approved == Approved(aadhaarValid, panValid, nameMatch, faceVerified)
    IN  [status |-> 200,
         approved |-> approved,
         checks |-> [
            aadhaar |-> [valid |-> aadhaarValid, doc_type |-> aadhaarData.doc_type,
                         aadhaar_number |-> aadhaarData.aadhaar_number,
                         name |-> aadhaarData.name,
                         ocr_confidence |-> aadhaarData.confidence],
            pan |-> [valid |-> panValid, doc_type |-> panData.doc_type,
                     pan_number |-> panData.pan_number, name |-> panData.name,
                     ocr_confidence |-> panData.confidence],
            name_cross_check |-> [match |-> nameMatch, similarity_pct |-> similarity,
                                  aadhaar_name |-> aadhaarName, pan_name |-> panName],
            face_match |-> [verified |-> faceVerified,
                            confidence |-> faceResult.confidence,
                            model |-> faceResult.model,
                            reason |-> faceResult.reason]],
         summary |-> [aadhaar_valid |-> aadhaarValid, pan_valid |-> panValid,
                      names_match |-> nameMatch, face_matches |-> faceVerified]]

NoResponse == [status |-> 0]
ErrorResponse(code) == [status |-> code]

NoDoc == [doc_type |-> "none", name |-> <<>>, aadhaar_number |-> <<>>,
          pan_number |-> <<>>, dob |-> <<>>, gender |-> <<>>, confidence |-> 0]

WithConfidence(obj) ==
    [doc_type |-> obj.doc_type, name |-> obj.name,
     aadhaar_number |-> obj.aadhaar_number, pan_number |-> obj.pan_number,
     dob |-> obj.dob, gender |-> obj.gender, confidence |-> EstimateConfidence(obj)]

\* An image field of the request body: not sent, the empty string, or data.
ImageValues == {"absent", "empty", "jpeg"}
\* !image
ImageMissing(image) == image \in {"absent", "empty"}
\* A check that forgets the selfie.
MissingImagesIgnoringSelfie(req) ==
    ImageMissing(req.aadhaar_image) \/ ImageMissing(req.pan_image)
\* !aadhaar_image || !pan_image || !selfie_image
MissingImages(req) ==
    \/ ImageMissing(req.aadhaar_image)
    \/ ImageMissing(req.pan_image)
    \/ ImageMissing(req.selfie_image)

VerifyInit ==
    /\ vreq \in [aadhaar_image : ImageValues, pan_image : ImageValues,
                 selfie_image : ImageValues, onboarding_name : DeclaredNames]
    /\ vpc = "idle"
    /\ vdoc = [d \in Docs |-> [pc |-> "idle", result |-> NoDoc]]
    /\ vresp = NoResponse

\* the pipeline at rest, for the specifications of the other subsystems
VerifyIdle ==
    /\ vreq = [aadhaar_image |-> "absent", pan_image |-> "absent",
               selfie_image |-> "absent", onboarding_name |-> <<>>]
    /\ vpc = "idle"
    /\ vdoc = [d \in Docs |-> [pc |-> "idle", result |-> NoDoc]]
    /\ vresp = NoResponse

\* POST up to the first suspension: the missing-image check, then Promise.all
\* starts both extractions, each of which issues its generic call.  A document
\* has an AI call in flight exactly when its pc is first, second_aadhaar or
\* second_pan; the face call is in flight exactly when vpc = "face".
Post ==
    /\ vpc = "idle"
    /\ IF MissingImages(vreq)
       THEN /\ vresp' = ErrorResponse(400)
            /\ vpc' = "done"
            /\ UNCHANGED vdoc
       ELSE /\ vpc' = "extract"
            /\ vdoc' = [d \in Docs |-> [pc |-> "first", result |-> NoDoc]]
            /\ vresp' = vresp
    /\ UNCHANGED vreq
    /\ UNCHANGED notVerify

\* The rejection of one extraction rejects Promise.all: the catch block of
\* POST answers 500.  The other extraction keeps running unobserved.
Reject(d) ==
    /\ vdoc' = [vdoc EXCEPT ![d].pc = "threw"]
    /\ IF vpc = "extract"
       THEN vpc' = "done" /\ vresp' = ErrorResponse(500)
       ELSE UNCHANGED <<vpc, vresp>>
    /\ UNCHANGED vreq

\* A POST that goes on to the face comparison as soon as one extraction has
\* resolved (Promise.race in place of Promise.all).
ResolveFirstWins(d, obj) ==
    /\ vdoc' = [vdoc EXCEPT ![d] = [pc |-> "done",
                                    result |-> WithConfidence(NormalizeDoc(obj))]]
    /\ IF vpc = "extract" THEN vpc' = "face" ELSE UNCHANGED vpc
    /\ UNCHANGED <<vreq, vresp>>
\* extractDocument resolves for d; when it is the second one, POST resumes
\* and issues the face-comparison call.
Resolve(d, obj) ==
    LET docs2 == [vdoc EXCEPT ![d] = [pc |-> "done",
                                       result |-> WithConfidence(NormalizeDoc(obj))]]
    IN  /\ vdoc' = docs2
        /\ IF vpc = "extract" /\ \A e \in Docs : docs2[e].pc = "done"
           THEN vpc' = "face"
           ELSE UNCHANGED vpc
        /\ UNCHANGED <<vreq, vresp>>

\* An AI call of extractDocument(d) throws.
GptThrows(d) ==
    /\ vdoc[d].pc \in {"first", "second_aadhaar", "second_pan"}
    /\ Reject(d)
    /\ UNCHANGED notVerify

\* An AI call of extractDocument(d) returns text.
GptReturns(d) ==
    /\ vdoc[d].pc \in {"first", "second_aadhaar", "second_pan"}
    /\ \E shape \in Shapes, obj \in DocObjs :
         LET parsed == ParseGptJson([shape |-> shape, obj |-> obj])
         IN  IF parsed.kind # "obj"
             THEN Reject(d)
             ELSE IF vdoc[d].pc = "first" /\ parsed.obj.doc_type \in {"aadhaar", "pan"}
             THEN /\ vdoc' = [vdoc EXCEPT ![d].pc =
                                IF parsed.obj.doc_type = "aadhaar"
                                THEN "second_aadhaar" ELSE "second_pan"]
                  /\ UNCHANGED <<vreq, vpc, vresp>>
             ELSE Resolve(d, parsed.obj)
    /\ UNCHANGED notVerify

\* The face-comparison call returns text or throws; POST then runs to its end.
FaceSettles(faceResult) ==
    /\ vpc = "face"
    /\ vresp' = BuildReport(vdoc["doc1"].result, vdoc["doc2"].result,
                            faceResult, vreq.onboarding_name)
    /\ vpc' = "done"
    /\ UNCHANGED <<vreq, vdoc>>
    /\ UNCHANGED notVerify

FaceDone ==
    /\ vpc = "face"
    /\ \E outcome \in FaceOutcomes : FaceSettles(CompareFaces(outcome))

VerifyNext ==
    \/ Post
    \/ \E d \in Docs : GptThrows(d)
    \/ \E d \in Docs : GptReturns(d)
    \/ FaceDone

-----------------------------------------------------------------------------
(* Audit endpoints: part_005 (POST /api/kyc/verify), part_006 (GET)        *)

MaxAuditLog == 2
MaxAuditPending == 2
MaxAuditClock == 2

\* What a client may send: a JSON body, or one that req.json() rejects.
Malformed == [malformed |-> TRUE]
AuditBodies ==
    [malformed : {FALSE}, userId : {"", "u1"},
     report : {<<"document_capture", "retry">>, <<"final_result", "success">>}]
    \cup {Malformed}

\* An entry put in front of the log.
AddAuditEntryFirst(log, entry) == <<entry>> \o log
\* addAuditEntry: auditLog.push(entry)
AddAuditEntry(log, entry) == Append(log, entry)

\* crypto.randomUUID(): an id no entry of the log has
FreshId(log) == Len(log) + 1

\* the entry POST builds from a body
AuditEntryOf(body, log, now) ==
    [id |-> FreshId(log), timestamp |-> now,
     userId |-> IF body.userId = "" THEN "anonymous" ELSE body.userId,
     step |-> body.report[1], status |-> body.report[2]]

NotListed == [present |-> FALSE]
AuditInit ==
    /\ auditLog = <<>>
    /\ auditPending = {}
    /\ auditNow = 0
    /\ auditListed = NotListed
AuditIdle == AuditInit

\* POST up to `await req.json()`
AuditPost ==
    /\ Cardinality(auditPending) < MaxAuditPending
    /\ \E body \in AuditBodies \ auditPending : auditPending' = auditPending \cup {body}
    /\ UNCHANGED <<auditLog, auditNow, auditListed>>
    /\ UNCHANGED notAudit

\* POST after the body has been read: the entry is appended, or the catch answers 400
AuditBodyRead ==
    /\ \E body \in auditPending :
         /\ auditPending' = auditPending \ {body}
         /\ IF body.malformed
            THEN auditLog' = auditLog
            ELSE /\ Len(auditLog) < MaxAuditLog
                 /\ auditLog' = AddAuditEntry(auditLog, AuditEntryOf(body, auditLog, auditNow))
    /\ UNCHANGED <<auditNow, auditListed>>
    /\ UNCHANGED notAudit

\* GET: getAuditLog()
AuditGet ==
    /\ auditListed' = [present |-> TRUE, logs |-> auditLog]
    /\ auditListed' # auditListed
    /\ UNCHANGED <<auditLog, auditPending, auditNow>>
    /\ UNCHANGED notAudit

\* time passes
AuditTick ==
    /\ auditNow < MaxAuditClock
    /\ auditNow' = auditNow + 1
    /\ UNCHANGED <<auditLog, auditPending, auditListed>>
    /\ UNCHANGED notAudit

AuditNext == AuditPost \/ AuditBodyRead \/ AuditGet \/ AuditTick

-----------------------------------------------------------------------------
(* KYC flow controller: src/app/kyc/page.tsx (one document) and the        *)
(* two-document KycPage (src/unnamed/part_004), with useCamera,             *)
(* useBlurDetection and useDocumentOCR                                      *)

Variants == {"one", "two"}
Vias == {"button", "voice"}
PassingMatch == {"success", "partial"}
PassingFace == {"detected", "skipped"}

\* useBlurDetection: thresholds
SHARPNESS_THRESHOLD == 50
BRIGHTNESS_MIN == 40
BRIGHTNESS_MAX == 220
\* <<sharpness, brightness>> scores on both sides of each threshold, and a
\* frame that is both blurred and dark
ScoreSamples ==
    {<<SHARPNESS_THRESHOLD - 1, BRIGHTNESS_MIN - 1>>,
     <<SHARPNESS_THRESHOLD - 1, BRIGHTNESS_MIN>>,
     <<SHARPNESS_THRESHOLD, BRIGHTNESS_MIN - 1>>,
     <<SHARPNESS_THRESHOLD, BRIGHTNESS_MIN>>,
     <<SHARPNESS_THRESHOLD, BRIGHTNESS_MAX>>,
     <<SHARPNESS_THRESHOLD, BRIGHTNESS_MAX + 1>>}

\* analyzeImage, once the image has loaded: ctx is whether getContext('2d')
\* gave a context
QualityResult(ctx, sharpnessScore, brightnessScore) ==
    IF ~ctx
    THEN [isAcceptable |-> FALSE, sharpnessScore |-> 0, brightnessScore |-> 0, issue |-> Null]
    ELSE LET issue == IF sharpnessScore < SHARPNESS_THRESHOLD THEN "blur"
                      ELSE IF brightnessScore < BRIGHTNESS_MIN THEN "dark"
                      ELSE IF brightnessScore > BRIGHTNESS_MAX THEN "bright"
                      ELSE Null
         IN  [isAcceptable |-> issue = Null, sharpnessScore |-> sharpnessScore,
              brightnessScore |-> brightnessScore, issue |-> issue]
QualityResults ==
    {QualityResult(FALSE, 0, 0)}
    \cup {QualityResult(TRUE, scores[1], scores[2]) : scores \in ScoreSamples}
NoQuality == QualityResult(FALSE, 0, 0)

\* recognizeDocument: the document type it classifies
OcrDocTypes == {"aadhaar", "pan", "unknown"}
\* extractedId: null, the identifier the onboarding record holds, or another
ExtractedIds == {"none", "matching", "other"}
\* the results of recognizeDocument: an identifier is looked for only on a
\* document whose type was recognised
OcrResults ==
    {[docType |-> "unknown", extractedId |-> "none"]}
    \cup [docType : {"aadhaar", "pan"}, extractedId : ExtractedIds]

\* ---- useCamera ----
\* getUserMedia calls in flight are kept to this number
MaxCamPending == 1
\* pending holds one entry per getUserMedia call in flight: whether the
\* action that made the call had set a new step before it called startCamera
CameraOff == [isStreaming |-> FALSE, streamLive |-> FALSE, pending |-> <<>>, error |-> Null]
Without(seq, i) == SubSeq(seq, 1, i - 1) \o SubSeq(seq, i + 1, Len(seq))
\* startCamera up to its await: the error is cleared and the tracks of the
\* current stream are stopped (isStreaming is left as it is)
StartCamera(c, moved) ==
    [c EXCEPT !.error = Null, !.streamLive = FALSE, !.pending = Append(@, moved)]
StopCamera(c) == [c EXCEPT !.streamLive = FALSE, !.isStreaming = FALSE]
\* captureFrame with a true isStreaming: the frames it can return.  A live
\* stream gives a frame; a video element whose tracks were stopped gives its
\* last frame or an empty image, from which no image ever loads
Frame == "frame"
BlankFrame == "blank"
CaptureFrame(c) == IF c.streamLive THEN {Frame} ELSE {Frame, BlankFrame}

\* ---- the page ----
\* backendData: null, or the body of a successful response
NoBackendData == [present |-> FALSE]
BackendData(approved) == [present |-> TRUE, approved |-> approved]
KycStart ==
    [step |-> "start", capturedImage |-> Null, qualityIssue |-> Null, ocrResult |-> Null,
     matchStatus |-> Null, capturedPanImage |-> Null, panQualityIssue |-> Null,
     panOcrResult |-> Null, panMatchStatus |-> Null, selfieImage |-> Null,
     faceStatus |-> Null, isAnalyzing |-> FALSE, kycApproved |-> FALSE,
     backendResult |-> NoBackendData, isVerifying |-> FALSE, isProcessing |-> FALSE]

\* audits: the audit requests the handler has issued so far, as <<step, status>>
IdleCap ==
    [pc |-> "idle", kind |-> "none", frame |-> Null, quality |-> NoQuality, audits |-> <<>>]
NoAudit == [step |-> "none", status |-> "none"]
\* finalize calls in flight are kept to this number
MaxFinalizers == 1

KycInit ==
    /\ env \in [variant : Variants, faceDetector : BOOLEAN]
    /\ kyc = KycStart
    /\ cam = CameraOff
    /\ memoStreaming = FALSE
    /\ capture = IdleCap
    /\ fins = <<>>
    /\ lastAudit = NoAudit

\* the controller at rest, for the specifications of the other subsystems
KycIdle ==
    /\ env = [variant |-> "two", faceDetector |-> FALSE]
    /\ kyc = KycStart
    /\ cam = CameraOff
    /\ memoStreaming = FALSE
    /\ capture = IdleCap
    /\ fins = <<>>
    /\ lastAudit = NoAudit

\* kycVoiceCommands is memoised on these values (the handlers it calls are
\* those of the render that last changed one of them)
MemoDeps(k) ==
    <<k.step, k.matchStatus, k.panMatchStatus, k.selfieImage, k.faceStatus, k.kycApproved>>
\* every action ends with the render it causes: a change of a dependency
\* rebuilds the voice commands around the handlers, and so the captureFrame,
\* of that render
Render ==
    memoStreaming' = IF MemoDeps(kyc') # MemoDeps(kyc) THEN cam'.isStreaming
                     ELSE memoStreaming

\* commandsEnabled={!isAnalyzing && !isProcessing}
VoiceEnabled == ~kyc.isAnalyzing /\ ~kyc.isProcessing
\* A capture control that does not look at isAnalyzing.
CanCaptureWhileAnalyzing(via) == IF via = "button" THEN cam.isStreaming ELSE memoStreaming
\* the capture button's disabled={!isStreaming || isAnalyzing}; the voice
\* command runs the memoised handler, whose captureFrame returns null unless
\* isStreaming was true when the commands were built
CanCapture(via) ==
    IF via = "button" THEN cam.isStreaming /\ ~kyc.isAnalyzing
    ELSE VoiceEnabled /\ memoStreaming

\* the guard of a control: the button's rendering conditions, or the voice
\* command's own test behind commandsEnabled
Allowed(via, button, voice) == IF via = "button" THEN button ELSE VoiceEnabled /\ voice
\* the buttons of the ocr and pan_ocr steps render once a result is shown
OcrShown == ~kyc.isProcessing /\ kyc.ocrResult # Null
PanOcrShown == ~kyc.isProcessing /\ kyc.panOcrResult # Null

\* the step after ocr: handleProceedToPan or handleProceedToSelfie
AfterOcrSkippingPan(variant) == "selfie"
AfterOcr(variant) == IF variant = "two" THEN "pan" ELSE "selfie"
\* getUserMedia calls in flight stay within the bound
CanStartCamera == Len(cam.pending) < MaxCamPending

\* handleStartKyc
StartKyc ==
    /\ \E via \in Vias : kyc.step = "start" /\ Allowed(via, TRUE, TRUE)
    /\ CanStartCamera
    /\ kyc' = [kyc EXCEPT !.step = "document"]
    /\ cam' = StartCamera(cam, TRUE)
    /\ UNCHANGED <<env, capture, fins, lastAudit>>
    /\ Render
    /\ UNCHANGED notKyc

\* startCamera after its await: getUserMedia resolved (ok) or rejected
CameraResolves ==
    /\ \E i \in 1..Len(cam.pending), ok \in BOOLEAN :
          cam' = IF ok
                 THEN [cam EXCEPT !.pending = Without(@, i), !.streamLive = TRUE,
                                  !.isStreaming = TRUE]
                 ELSE [cam EXCEPT !.pending = Without(@, i), !.error = "error",
                                  !.isStreaming = FALSE]
    /\ UNCHANGED <<env, kyc, capture, fins, lastAudit>>
    /\ Render
    /\ UNCHANGED notKyc

\* switchCamera: the button of the document and pan steps is never disabled;
\* the two-document selfie step has a button with the capture button's guard
SwitchCamera ==
    /\ \E via \in Vias :
          \/ kyc.step \in {"document", "pan"} /\ Allowed(via, TRUE, TRUE)
          \/ /\ kyc.step = "selfie" /\ env.variant = "two" /\ via = "button"
             /\ kyc.selfieImage = Null /\ cam.isStreaming /\ ~kyc.isAnalyzing
    /\ CanStartCamera
    /\ cam' = StartCamera(cam, FALSE)
    /\ UNCHANGED <<env, kyc, capture, fins, lastAudit>>
    /\ Render
    /\ UNCHANGED notKyc

\* the document_capture audit request of a capture
CaptureAudit(kind, accepted, quality) ==
    [step |-> "document_capture", status |-> IF accepted THEN "success" ELSE "retry",
     details |-> [sharpnessScore |-> quality.sharpnessScore,
                  brightnessScore |-> quality.brightnessScore,
                  qualityIssue |-> quality.issue,
                  docType |-> IF kind = "pan" THEN "pan" ELSE Null]]
\* handleCaptureDocument uses the gate's verdict; handleCapturePan has
\* isActuallyAcceptable = true
\* A handleCapturePan that keeps the gate's verdict (the commented-out code).
AcceptedByQuality(kind, quality) == quality.isAcceptable
Accepted(kind, quality) == IF kind = "pan" THEN TRUE ELSE quality.isAcceptable

\* handleCaptureDocument / handleCapturePan up to await analyzeImage
StartCapture(kind) ==
    /\ \E via \in Vias : CanCapture(via)
    /\ \E frame \in CaptureFrame(cam) :
          capture' = [pc |-> "analyze", kind |-> kind, frame |-> frame,
                      quality |-> NoQuality, audits |-> <<>>]
    /\ kyc' = IF kind = "pan"
              THEN [kyc EXCEPT !.isAnalyzing = TRUE, !.panQualityIssue = Null]
              ELSE [kyc EXCEPT !.isAnalyzing = TRUE, !.qualityIssue = Null]
    /\ UNCHANGED <<env, cam, fins, lastAudit>>
    /\ Render
    /\ UNCHANGED notKyc
CaptureDocument == kyc.step = "document" /\ StartCapture("document")
CapturePan == kyc.step = "pan" /\ StartCapture("pan")

\* analyzeImage resolves (the image loaded) and logAudit is called
AnalysisDone ==
    /\ capture.pc = "analyze" /\ capture.frame = Frame
    /\ \E quality \in QualityResults :
          /\ lastAudit' = CaptureAudit(capture.kind, Accepted(capture.kind, quality), quality)
          /\ capture' = [capture EXCEPT !.pc = "audit", !.quality = quality,
                                        !.audits = Append(@, <<lastAudit'.step,
                                                               lastAudit'.status>>)]
    /\ UNCHANGED <<env, kyc, cam, fins>>
    /\ Render
    /\ UNCHANGED notKyc

\* the state after a rejected capture
Rejected(k, kind, quality) ==
    IF kind = "pan"
    THEN [k EXCEPT !.panQualityIssue = quality.issue, !.isAnalyzing = FALSE]
    ELSE [k EXCEPT !.qualityIssue = quality.issue, !.isAnalyzing = FALSE]
\* the state after an accepted capture, recognizeDocument called
Stored(k, kind, frame) ==
    IF kind = "pan"
    THEN [k EXCEPT !.capturedPanImage = frame, !.isAnalyzing = FALSE, !.step = "pan_ocr",
                   !.isProcessing = TRUE]
    ELSE [k EXCEPT !.capturedImage = frame, !.isAnalyzing = FALSE, !.step = "ocr",
                   !.isProcessing = TRUE]

\* logAudit returns (it swallows its errors): the capture is rejected, or
\* stored and handed to recognizeDocument
AuditReturns ==
    /\ capture.pc = "audit"
    /\ IF Accepted(capture.kind, capture.quality)
       THEN /\ kyc' = Stored(kyc, capture.kind, capture.frame)
            /\ cam' = StopCamera(cam)
            /\ capture' = [capture EXCEPT !.pc = "ocr"]
       ELSE /\ kyc' = Rejected(kyc, capture.kind, capture.quality)
            /\ cam' = cam
            /\ capture' = IdleCap
    /\ UNCHANGED <<env, fins, lastAudit>>
    /\ Render
    /\ UNCHANGED notKyc

\* the ocr_validation audit request
OcrAuditAlwaysFailure(status, result) ==
    [step |-> "ocr_validation", status |-> "failure",
     details |-> [docType |-> result.docType, extractedId |-> result.extractedId]]
OcrAudit(status, result) ==
    [step |-> "ocr_validation", status |-> IF status = "success" THEN "success" ELSE "failure",
     details |-> [docType |-> result.docType, extractedId |-> result.extractedId]]
\* The strict validation the handler keeps in a comment: the identifier has
\* to agree with the onboarding record.
MatchOfStrict(result) ==
    IF result.docType = "unknown" THEN "none"
    ELSE IF result.extractedId = "matching" THEN "success"
    ELSE IF result.extractedId = "other" THEN "none"
    ELSE "partial"
\* the match outcome handleCaptureDocument derives from the recognition result
MatchOf(result) == IF result.docType # "unknown" THEN "success" ELSE "none"
\* mockResult of handleCapturePan
MockPan(result) ==
    [docType |-> IF result.docType = "unknown" THEN "pan" ELSE result.docType,
     extractedId |-> IF result.extractedId = "none" THEN "placeholder" ELSE result.extractedId]
\* the state after recognizeDocument returned result
Recognized(k, kind, result) ==
    IF kind = "pan"
    THEN [k EXCEPT !.isProcessing = FALSE, !.panMatchStatus = "success",
                   !.panOcrResult = MockPan(result).docType]
    ELSE [k EXCEPT !.isProcessing = FALSE, !.ocrResult = result.docType,
                   !.matchStatus = MatchOf(result)]

\* recognizeDocument settles: it returns a document type, or it throws and
\* the handler ends with its finally block only
OcrDone ==
    /\ capture.pc = "ocr"
    /\ \/ \E result \in OcrResults :
             /\ kyc' = Recognized(kyc, capture.kind, result)
             /\ lastAudit' = IF capture.kind = "pan"
                              THEN OcrAudit("success", MockPan(result))
                              ELSE OcrAudit(MatchOf(result), result)
       \/ /\ kyc' = [kyc EXCEPT !.isProcessing = FALSE]
          /\ lastAudit' = lastAudit
    /\ capture' = IdleCap
    /\ UNCHANGED <<env, cam, fins>>
    /\ Render
    /\ UNCHANGED notKyc

\* the forward control of the ocr step
CanProceedFromOcrAnyOutcome(via) == Allowed(via, OcrShown, TRUE)
CanProceedFromOcr(via) ==
    Allowed(via, OcrShown /\ kyc.matchStatus \in PassingMatch,
            kyc.matchStatus \in PassingMatch)

\* handleProceedToPan (two documents) / handleProceedToSelfie (one)
ProceedFromOcr ==
    /\ kyc.step = "ocr"
    /\ \E via \in Vias : CanProceedFromOcr(via)
    /\ CanStartCamera
    /\ kyc' = [kyc EXCEPT !.step = AfterOcr(env.variant)]
    /\ cam' = StartCamera(cam, TRUE)
    /\ UNCHANGED <<env, capture, fins, lastAudit>>
    /\ Render
    /\ UNCHANGED notKyc

\* handleRetakeDocument
RetakeDocument ==
    /\ kyc.step = "ocr"
    /\ \E via \in Vias : Allowed(via, OcrShown, TRUE)
    /\ CanStartCamera
    /\ kyc' = [kyc EXCEPT !.capturedImage = Null, !.qualityIssue = Null, !.ocrResult = Null,
                          !.matchStatus = Null, !.step = "document"]
    /\ cam' = StartCamera(cam, TRUE)
    /\ UNCHANGED <<env, capture, fins, lastAudit>>
    /\ Render
    /\ UNCHANGED notKyc

\* handleProceedToSelfie of the two-document page, from pan_ocr
ProceedToSelfie ==
    /\ kyc.step = "pan_ocr"
    /\ \E via \in Vias : Allowed(via, PanOcrShown /\ kyc.panMatchStatus = "success",
                                 kyc.panMatchStatus \in PassingMatch)
    /\ CanStartCamera
    /\ kyc' = [kyc EXCEPT !.step = "selfie"]
    /\ cam' = StartCamera(cam, TRUE)
    /\ UNCHANGED <<env, capture, fins, lastAudit>>
    /\ Render
    /\ UNCHANGED notKyc

\* handleRetakePan
RetakePan ==
    /\ kyc.step = "pan_ocr"
    /\ \E via \in Vias : Allowed(via, PanOcrShown, TRUE)
    /\ CanStartCamera
    /\ kyc' = [kyc EXCEPT !.capturedPanImage = Null, !.panQualityIssue = Null,
                          !.panOcrResult = Null, !.panMatchStatus = Null, !.step = "pan"]
    /\ cam' = StartCamera(cam, TRUE)
    /\ UNCHANGED <<env, capture, fins, lastAudit>>
    /\ Render
    /\ UNCHANGED notKyc

\* the selfie_capture audit request
SelfieAudit(detected) ==
    [step |-> "selfie_capture",
     status |-> IF detected \in PassingFace THEN "success" ELSE "failure"]

\* handleCaptureSelfie up to its first await.  Without window.FaceDetector,
\* or when its constructor throws, there is none before the verdict
\* "skipped"; otherwise the handler waits for the image to load
CaptureSelfie ==
    /\ kyc.step = "selfie"
    /\ \E via \in Vias : CanCapture(via) /\ kyc.selfieImage = Null
    /\ \E frame \in CaptureFrame(cam), waits \in BOOLEAN :
          /\ waits => env.faceDetector
          /\ IF waits
             THEN /\ kyc' = [kyc EXCEPT !.selfieImage = frame, !.isAnalyzing = TRUE]
                  /\ capture' = [pc |-> "detect", kind |-> "selfie", frame |-> frame,
                                 quality |-> NoQuality, audits |-> <<>>]
                  /\ lastAudit' = lastAudit
             ELSE /\ kyc' = [kyc EXCEPT !.selfieImage = frame, !.faceStatus = "skipped",
                                        !.isAnalyzing = FALSE]
                  /\ capture' = capture
                  /\ lastAudit' = SelfieAudit("skipped")
    /\ cam' = StopCamera(cam)
    /\ UNCHANGED <<env, fins>>
    /\ Render
    /\ UNCHANGED notKyc

\* the image loaded and detector.detect settled (a rejection gives "skipped")
\* what the detection does once the image has loaded: detector.detect
\* throws, or it returns no face or a face
DetectOutcomes == {"threw", "no_face", "face"}
\* A verdict that counts a failed detection against the user.
FaceVerdictThrowFails(outcome) ==
    CASE outcome = "threw"   -> "not_detected"
      [] outcome = "no_face" -> "not_detected"
      [] outcome = "face"    -> "detected"
\* detected = faces.length > 0 ? 'detected' : 'not_detected'; catch: 'skipped'
FaceVerdict(outcome) ==
    CASE outcome = "threw"   -> "skipped"
      [] outcome = "no_face" -> "not_detected"
      [] outcome = "face"    -> "detected"

DetectSettles(outcome) ==
    /\ capture.pc = "detect" /\ capture.frame = Frame
    /\ kyc' = [kyc EXCEPT !.faceStatus = FaceVerdict(outcome), !.isAnalyzing = FALSE]
    /\ lastAudit' = SelfieAudit(FaceVerdict(outcome))
    /\ capture' = IdleCap
    /\ UNCHANGED <<env, cam, fins>>
    /\ Render
    /\ UNCHANGED notKyc

DetectDone ==
    /\ capture.pc = "detect"
    /\ \E outcome \in DetectOutcomes : DetectSettles(outcome)

\* the retake control of the selfie step (inline handlers)
RetakeSelfie ==
    /\ kyc.step = "selfie"
    /\ \E via \in Vias : Allowed(via, kyc.selfieImage # Null /\ kyc.faceStatus = "not_detected",
                                 kyc.selfieImage # Null)
    /\ CanStartCamera
    /\ kyc' = [kyc EXCEPT !.selfieImage = Null, !.faceStatus = Null]
    /\ cam' = StartCamera(cam, FALSE)
    /\ UNCHANGED <<env, capture, fins, lastAudit>>
    /\ Render
    /\ UNCHANGED notKyc

\* ---- handleFinalize ----
\* what the handler's closure holds
Snapshot(k) ==
    [matchStatus |-> k.matchStatus, panMatchStatus |-> k.panMatchStatus,
     faceStatus |-> k.faceStatus, capturedImage |-> k.capturedImage,
     capturedPanImage |-> k.capturedPanImage, selfieImage |-> k.selfieImage]
\* if (capturedImage && capturedPanImage && selfieImage)
CallsBackend(f) ==
    f.capturedImage # Null /\ f.capturedPanImage # Null /\ f.selfieImage # Null
\* how the fetch of /api/kyc/full-verify ends: a successful response with the
\* pipeline's verdict, another status, or an exception
Responses ==
    {[kind |-> "ok", approved |-> a] : a \in BOOLEAN}
    \cup {[kind |-> "status", approved |-> FALSE], [kind |-> "throws", approved |-> FALSE]}
\* the fallback of the two-document page
LocalRule(f) ==
    LET aadhaarPassed == f.matchStatus \in PassingMatch
        panPassed == f.panMatchStatus \in PassingMatch
    IN  aadhaarPassed /\ panPassed /\ f.faceStatus \in PassingFace
\* the one-document page's rule
LocalRuleOne(f) == f.matchStatus \in PassingMatch /\ f.faceStatus \in PassingFace
\* backendData after the try block
BackendDataOf(response) ==
    IF response.kind = "ok" THEN BackendData(response.approved) ELSE NoBackendData
\* approved, from backendData and the closure
ApprovedOfLocalOnly(f, backendData) == LocalRule(f)
ApprovedOf(f, backendData) ==
    IF backendData.present THEN backendData.approved ELSE LocalRule(f)
FinalAuditAlwaysSuccess(f, approved, backendData) ==
    [step |-> "final_result", status |-> "success",
     details |-> [matchStatus |-> f.matchStatus, panMatchStatus |-> f.panMatchStatus,
                  faceStatus |-> f.faceStatus, backend |-> backendData]]
FinalAudit(f, approved, backendData) ==
    [step |-> "final_result", status |-> IF approved THEN "success" ELSE "failure",
     details |-> [matchStatus |-> f.matchStatus, panMatchStatus |-> f.panMatchStatus,
                  faceStatus |-> f.faceStatus, backend |-> backendData]]
\* the end of the handler: setIsVerifying(false), setKycApproved, logAudit
Decided(k, f, backendData) ==
    [k EXCEPT !.isVerifying = FALSE, !.kycApproved = ApprovedOf(f, backendData),
              !.backendResult = IF backendData.present THEN backendData ELSE @]

\* finalize calls in flight stay within the bound
CanFinalize == Len(fins) < MaxFinalizers
\* handleFinalize up to its await.  The one-document page decides at once;
\* the two-document page calls the endpoint when it holds the three images,
\* and decides at once when it does not
Finalize ==
    /\ kyc.step = "selfie"
    /\ \E via \in Vias :
          Allowed(via, kyc.selfieImage # Null /\ kyc.faceStatus \in PassingFace,
                  kyc.selfieImage # Null /\ kyc.faceStatus \in PassingFace)
    /\ LET f == Snapshot(kyc)
       IN  IF env.variant = "one"
           THEN /\ kyc' = [kyc EXCEPT !.step = "result", !.kycApproved = LocalRuleOne(f)]
                /\ lastAudit' = FinalAudit(f, LocalRuleOne(f), NoBackendData)
                /\ fins' = fins
           ELSE IF CallsBackend(f)
           THEN /\ CanFinalize
                /\ kyc' = [kyc EXCEPT !.step = "result", !.isVerifying = TRUE]
                /\ fins' = Append(fins, f)
                /\ lastAudit' = lastAudit
           ELSE /\ kyc' = Decided([kyc EXCEPT !.step = "result"], f, NoBackendData)
                /\ lastAudit' = FinalAudit(f, ApprovedOf(f, NoBackendData), NoBackendData)
                /\ fins' = fins
    /\ UNCHANGED <<env, cam, capture>>
    /\ Render
    /\ UNCHANGED notKyc

\* the fetch of call i settles with response
FinalizeDone(i, response) ==
    /\ i \in 1..Len(fins)
    /\ LET backendData == BackendDataOf(response)
       IN  /\ kyc' = Decided(kyc, fins[i], backendData)
           /\ lastAudit' = FinalAudit(fins[i], ApprovedOf(fins[i], backendData), backendData)
    /\ fins' = Without(fins, i)
    /\ UNCHANGED <<env, cam, capture>>
    /\ Render
    /\ UNCHANGED notKyc
FinalizeSettles == \E i \in 1..MaxFinalizers, response \in Responses : FinalizeDone(i, response)

\* handleRestart: the result step's buttons (hidden while the two-document
\* page is verifying) and its voice commands "done" and "retry"
CanRestart(via) == kyc.step = "result" /\ Allowed(via, ~kyc.isVerifying, TRUE)
Restart ==
    /\ \E via \in Vias : CanRestart(via)
    /\ cam' = StopCamera(cam)
    /\ kyc' = [KycStart EXCEPT !.isAnalyzing = kyc.isAnalyzing,
                               !.isProcessing = kyc.isProcessing]
    /\ UNCHANGED <<env, capture, fins, lastAudit>>
    /\ Render
    /\ UNCHANGED notKyc

KycNext ==
    \/ StartKyc \/ CameraResolves \/ SwitchCamera
    \/ CaptureDocument \/ CapturePan \/ AnalysisDone \/ AuditReturns \/ OcrDone
    \/ ProceedFromOcr \/ RetakeDocument \/ ProceedToSelfie \/ RetakePan
    \/ CaptureSelfie \/ DetectDone \/ RetakeSelfie
    \/ Finalize \/ FinalizeSettles \/ Restart

-----------------------------------------------------------------------------
(* OnboardingPage: the recogniser and the prompt speaker                   *)

MaxRecognitions == 2   \* SpeechRecognition objects alive at once
MaxUtterances == 2     \* speak() calls not yet finished at once

\* the prompts of OnboardingPage, in the order of `fields`, then `done`
PromptKeys == <<"name", "dob", "pan", "aadhaar", "done">>

RecognitionIds == 1..MaxRecognitions
UtteranceIds == 1..MaxUtterances

VoiceInit ==
    /\ isListening = FALSE
    /\ isSpeaking = FALSE
    /\ recognitions = [r \in RecognitionIds |-> "none"]
    /\ recognitionRef = 0
    /\ utterances = [u \in UtteranceIds |-> "none"]
    /\ audioRef = 0
    /\ promptKey = 0
VoiceIdle == VoiceInit

\* useSpeechRecognition.stop: recognitionRef.current.stop()
StopRecognition ==
    IF recognitionRef # 0 /\ recognitions[recognitionRef] \in {"starting", "running"}
    THEN [recognitions EXCEPT ![recognitionRef] = "stopping"]
    ELSE recognitions

\* useTextToSpeech: audioRef.current.pause()
PauseAudio ==
    IF audioRef # 0 /\ utterances[audioRef] = "playing"
    THEN [utterances EXCEPT ![audioRef] = "none"]
    ELSE utterances

\* useTextToSpeech.speak up to its first await: the Audio in audioRef is
\* paused and forgotten, isSpeaking is set, the request u is sent.
Speak(u) ==
    /\ PauseAudio[u] = "none"
    /\ utterances' = [PauseAudio EXCEPT ![u] = "fetching"]
    /\ audioRef' = 0
    /\ isSpeaking' = TRUE

\* handleToggle: nothing while the prompt speaks; else stop() when listening
\* and start() when not.  start() creates a recognition and calls its
\* start(); isListening is set only by the onstart event.
HandleToggle ==
    /\ promptKey > 0
    /\ ~isSpeaking
    /\ IF isListening
       THEN /\ recognitions' = StopRecognition
            /\ recognitionRef' = 0
            /\ isListening' = FALSE
       ELSE /\ \E r \in RecognitionIds :
                 /\ recognitions[r] = "none"
                 /\ recognitions' = [recognitions EXCEPT ![r] = "starting"]
                 /\ recognitionRef' = r
            /\ UNCHANGED isListening
    /\ UNCHANGED <<isSpeaking, utterances, audioRef, promptKey>>
    /\ UNCHANGED notVoice

\* recognition.onstart
RecognitionStarts ==
    /\ \E r \in RecognitionIds :
         /\ recognitions[r] = "starting"
         /\ recognitions' = [recognitions EXCEPT ![r] = "running"]
    /\ isListening' = TRUE
    /\ UNCHANGED <<isSpeaking, recognitionRef, utterances, audioRef, promptKey>>
    /\ UNCHANGED notVoice

\* recognition.onend, after onerror when the recognition failed
RecognitionEnds ==
    /\ \E r \in RecognitionIds :
         /\ recognitions[r] # "none"
         /\ recognitions' = [recognitions EXCEPT ![r] = "none"]
    /\ isListening' = FALSE
    /\ UNCHANGED <<isSpeaking, recognitionRef, utterances, audioRef, promptKey>>
    /\ UNCHANGED notVoice

\* The prompt effect: it runs on mount and whenever promptKey changes (a
\* field was filled by speech or by the 12-second timer); it stops the
\* recogniser if isListening and speaks the new prompt.
PromptChanges ==
    /\ promptKey < Len(PromptKeys)
    /\ promptKey' = promptKey + 1
    /\ IF isListening
       THEN /\ recognitions' = StopRecognition
            /\ recognitionRef' = 0
            /\ isListening' = FALSE
       ELSE UNCHANGED <<recognitions, recognitionRef, isListening>>
    /\ \E u \in UtteranceIds : Speak(u)
    /\ UNCHANGED notVoice

\* what became of a request to /api/tts
TtsOutcomes == {"audio", "rejected", "native", "threw"}

\* speak after its await: the Audio plays, or play() rejects, or the
\* endpoint failed and speechSynthesis speaks, or the fetch threw.
TtsSettles ==
    /\ promptKey > 0
    /\ \E u \in UtteranceIds, outcome \in TtsOutcomes :
         /\ utterances[u] = "fetching"
         /\ utterances' = [utterances EXCEPT ![u] =
                               CASE outcome = "audio" -> "playing"
                                 [] outcome = "native" -> "native"
                                 [] OTHER -> "none"]
         /\ audioRef' = IF outcome \in {"audio", "rejected"} THEN u ELSE audioRef
         /\ isSpeaking' = IF outcome \in {"rejected", "threw"} THEN FALSE ELSE isSpeaking
    /\ UNCHANGED <<isListening, recognitions, recognitionRef, promptKey>>
    /\ UNCHANGED notVoice

\* audio.onended, utterance.onend
PlaybackEnds ==
    /\ \E u \in UtteranceIds :
         /\ utterances[u] \in {"playing", "native"}
         /\ utterances' = [utterances EXCEPT ![u] = "none"]
         /\ audioRef' = IF audioRef = u THEN 0 ELSE audioRef
    /\ isSpeaking' = FALSE
    /\ UNCHANGED <<isListening, recognitions, recognitionRef, promptKey>>
    /\ UNCHANGED notVoice

\* handleReview: stopSpeaking() and the page is left; the unmount clean-ups
\* abort the recognition and pause the audio.  A later visit mounts anew.
HandleReview ==
    /\ promptKey > 0
    /\ isListening' = FALSE
    /\ isSpeaking' = FALSE
    /\ recognitions' = [r \in RecognitionIds |-> "none"]
    /\ recognitionRef' = 0
    /\ utterances' = [u \in UtteranceIds |-> "none"]
    /\ audioRef' = 0
    /\ promptKey' = 0
    /\ UNCHANGED notVoice

VoiceNext ==
    \/ HandleToggle \/ RecognitionStarts \/ RecognitionEnds
    \/ PromptChanges \/ TtsSettles \/ PlaybackEnds \/ HandleReview

-----------------------------------------------------------------------------
(* useFieldExtractor.ts: the matching loop of both versions of the hook    *)
(* (lines 96-145 and lines 242-279), applied to a field and a text         *)

\* the patterns of the second version (lines 174-206): those of the first
\* without the last of dob, pan and aadhaar, and with one catch-all for names
NamePatternsV2 ==
    SubSeq(NamePatterns, 1, 3) \o
    \* /^([a-zA-Z\s.]{3,40})$/
    << Pattern(Bol, Rep(Cls(Letters \cup WS \cup {"."}), 3, 40), Eol) >>
patternsV2(field) ==
    CASE field = "name" -> NamePatternsV2
      [] field = "dob" -> SubSeq(DobPatterns, 1, 4)
      [] field = "pan" -> SubSeq(PanPatterns, 1, 2)
      [] field = "aadhaar" -> SubSeq(AadhaarPatterns, 1, 3)

\* lines 249-264: validation and formatting of match[1] in the second
\* version; <<>> when the gate rejects it.  A name has no gate.
FormattedV2(field, m) ==
    LET value == Trim(m) IN
    CASE field = "pan" ->
            LET v == ToUpperCase(StripSpacesAndHyphens(value))
            IN  IF Len(v) # 10 THEN <<>> ELSE v
      [] field = "aadhaar" ->
            LET digits == StripNonDigits(value)
            IN  IF Len(digits) # 12 THEN <<>>
                ELSE SubSeq(digits, 1, 4) \o <<" ">> \o SubSeq(digits, 5, 8)
                     \o <<" ">> \o SubSeq(digits, 9, 12)
      [] field = "name" -> TitleCase(value)
      [] field = "dob" -> value

\* lines 244-278: the value of the first pattern that matches, or <<>> when
\* none matches or the gate rejects that first match (`return`)
RECURSIVE FirstAcceptedV2(_, _, _)
FirstAcceptedV2(field, fieldPatterns, fullText) ==
    IF fieldPatterns = <<>> THEN <<>>
    ELSE IF Match1(Head(fieldPatterns), fullText) # <<>>
    THEN FormattedV2(field, Match1(Head(fieldPatterns), fullText))
    ELSE FirstAcceptedV2(field, Tail(fieldPatterns), fullText)

\* what the recogniser may deliver, in pieces
SayNumber == <<"n","u","m","b","e","r"," ">>
SaySpelledDigits == <<"1"," ","2"," ","3"," ","4"," ","5"," ","6"," ","7"," ","8"," ">>
SayIAmAl == <<"i"," ","a","m"," ","a","l">>
SayPanBroken == <<"p","a","n"," ","a","b","c","d","e"," ","1","2"," ","3","4">>
SayIsGrouped == <<"i","s"," ","1","2","3"," ","4","5","6"," ","7","8","9"," ","0","1","2">>
SayAadhaarSpaced == <<"1","2","3","4"," ","5","6","7","8"," ","9","0","1","2">>
GateTexts ==
    {a \o b \o c : a \in {<<>>, SayNumber},
                   b \in {<<>>, SaySpelledDigits, SayIAmAl, SayPanBroken},
                   c \in {<<>>, SayIsGrouped, SayPan, SayAadhaarSpaced}}

NotMatched == [done |-> FALSE]
GateInit ==
    /\ gateField \in FieldKeys
    /\ gateText \in GateTexts
    /\ gateOut = NotMatched
GateIdle ==
    /\ gateField = "name"
    /\ gateText = <<>>
    /\ gateOut = NotMatched

\* one run of the loop of each version
MatchField ==
    /\ ~gateOut.done
    /\ gateOut' = [done |-> TRUE,
                   v1 |-> FirstAccepted(gateField, patterns(gateField), gateText),
                   v2 |-> FirstAcceptedV2(gateField, patternsV2(gateField), gateText)]
    /\ UNCHANGED <<gateField, gateText>>
    /\ UNCHANGED notGate
GateNext == MatchField

-----------------------------------------------------------------------------
(* useCamera (part_013) on its own: every MediaStream is tracked            *)

MaxStreams == 3   \* MediaStream objects asked for and not yet released
StreamIds == 1..MaxStreams
Facings == {"environment", "user"}
NoStream == [state |-> "free", mode |-> "environment"]

CameraInit ==
    /\ streams = [i \in StreamIds |-> NoStream]
    /\ streamRef = 0
    /\ isStreaming = FALSE
    /\ facing = "environment"
    /\ cameraError = FALSE
CameraIdle == CameraInit

\* streamRef.current.getTracks().forEach(track => track.stop())
TracksStopped ==
    IF streamRef # 0 /\ streams[streamRef].state = "live"
    THEN [streams EXCEPT ![streamRef].state = "stopped"]
    ELSE streams

\* startCamera up to its await: the error is cleared, the tracks of the
\* stream in streamRef are stopped (streamRef keeps it), getUserMedia is
\* called for the facing mode
AcquireCamera(mode) ==
    /\ \E i \in StreamIds :
          /\ streams[i].state = "free"
          /\ streams' = [TracksStopped EXCEPT ![i] = [state |-> "pending", mode |-> mode]]
    /\ cameraError' = FALSE
    /\ UNCHANGED <<streamRef, isStreaming, facing>>
    /\ UNCHANGED notCamera

\* startCamera(requestedFacing), as the page calls it
CallStartCamera ==
    /\ cameraError \in BOOLEAN
    /\ \E mode \in Facings : AcquireCamera(mode)

\* switchCamera: startCamera for the other facing
CallSwitchCamera ==
    /\ facing \in Facings
    /\ AcquireCamera(IF facing = "environment" THEN "user" ELSE "environment")

\* a stream the hook no longer refers to and whose tracks are stopped is gone
Released(ss, ref) ==
    [i \in StreamIds |-> IF ss[i].state = "stopped" /\ i # ref THEN NoStream ELSE ss[i]]

\* startCamera after its await: getUserMedia resolved with stream i, which
\* is stored in streamRef and played, or it rejected
AcquisitionSettles ==
    /\ \E i \in StreamIds, ok \in BOOLEAN :
          /\ streams[i].state = "pending"
          /\ IF ok
             THEN /\ streams' = Released([streams EXCEPT ![i].state = "live"], i)
                  /\ streamRef' = i
                  /\ facing' = streams[i].mode
                  /\ isStreaming' = TRUE
                  /\ UNCHANGED cameraError
             ELSE /\ streams' = [streams EXCEPT ![i] = NoStream]
                  /\ cameraError' = TRUE
                  /\ isStreaming' = FALSE
                  /\ UNCHANGED <<streamRef, facing>>
    /\ UNCHANGED notCamera

\* stopCamera: the tracks of the stream in streamRef are stopped and the
\* reference is dropped
CallStopCamera ==
    /\ streams' = Released(TracksStopped, 0)
    /\ streamRef' = 0
    /\ isStreaming' = FALSE
    /\ UNCHANGED <<facing, cameraError>>
    /\ UNCHANGED notCamera

CameraNext ==
    \/ CallStartCamera \/ CallSwitchCamera \/ AcquisitionSettles \/ CallStopCamera

InitVerify == VerifyInit /\ ExtractorInit /\ KycIdle /\ ParseIdle /\ SimilarityIdle /\ AuditIdle /\ VoiceIdle /\ GateIdle /\ CameraIdle
SpecVerify == InitVerify /\ [][VerifyNext]_vars

InitExtractor == ExtractorInit /\ VerifyIdle /\ KycIdle /\ ParseIdle /\ SimilarityIdle /\ AuditIdle /\ VoiceIdle /\ GateIdle /\ CameraIdle
SpecExtractor == InitExtractor /\ [][ExtractorNext]_vars
\* A pending timer fires unless it is cancelled: setTimeout callbacks run.
SpecExtractorFair == SpecExtractor /\ WF_vars(TimerExpiry)
InitKyc == KycInit /\ ExtractorInit /\ VerifyIdle /\ ParseIdle /\ SimilarityIdle /\ AuditIdle /\ VoiceIdle /\ GateIdle /\ CameraIdle
SpecKyc == InitKyc /\ [][KycNext]_vars

\* parseGptJson applied to every response text of at most MaxRawLen units
InitParse == ParseInit /\ VerifyIdle /\ ExtractorInit /\ KycIdle /\ SimilarityIdle /\ AuditIdle /\ VoiceIdle /\ GateIdle /\ CameraIdle
SpecParse == InitParse /\ [][ParseNext]_vars

\* nameSimilarityPct applied to every pair of names of at most MaxNameLen characters
InitSimilarity == SimilarityInit /\ VerifyIdle /\ ExtractorInit /\ KycIdle /\ ParseIdle /\ AuditIdle /\ VoiceIdle /\ GateIdle /\ CameraIdle
SpecSimilarity == InitSimilarity /\ [][SimilarityNext]_vars

InitAudit ==
    AuditInit /\ VerifyIdle /\ ExtractorInit /\ KycIdle /\ ParseIdle /\ SimilarityIdle /\ VoiceIdle /\ GateIdle /\ CameraIdle
SpecAudit == InitAudit /\ [][AuditNext]_vars

InitVoice ==
    VoiceInit /\ VerifyIdle /\ ExtractorInit /\ KycIdle /\ ParseIdle /\ SimilarityIdle /\ AuditIdle /\ GateIdle /\ CameraIdle
SpecVoice == InitVoice /\ [][VoiceNext]_vars

\* the matching loop applied to every field and every text of GateTexts
InitGate ==
    GateInit /\ VerifyIdle /\ ExtractorInit /\ KycIdle /\ ParseIdle /\ SimilarityIdle /\ AuditIdle
    /\ VoiceIdle /\ CameraIdle
SpecGate == InitGate /\ [][GateNext]_vars

\* every sequence of startCamera, switchCamera and stopCamera calls
InitCamera ==
    CameraInit /\ VerifyIdle /\ ExtractorInit /\ KycIdle /\ ParseIdle /\ SimilarityIdle /\ AuditIdle
    /\ VoiceIdle /\ GateIdle
SpecCamera == InitCamera /\ [][CameraNext]_vars
\* The browser settles what the page awaits locally: the image loads, the
\* recogniser and the face detector finish.  The audit request is left
\* without fairness: it may succeed, fail, or never return.
SpecKycAuditHangs ==
    SpecKyc /\ WF_vars(AnalysisDone) /\ WF_vars(OcrDone) /\ WF_vars(DetectDone)
\* The browser settles what the page awaits locally and the audit request
\* returns as well: every await of a capture handler whose promise can settle
\* does settle.
SpecKycSettles == SpecKycAuditHangs /\ WF_vars(AuditReturns)


-----------------------------------------------------------------------------
(* Claims about the verification pipeline                                  *)

\* C1: a report has approved = true if and only if all four sub-checks it
\* carries hold (national-ID valid, tax-ID valid, name cross-check passed,
\* face match verified); in particular approved is false whenever the face
\* match is unverified, whatever the document results are.
C1_ApprovedIffAllFour ==
    vresp.status = 200 =>
        /\ vresp.approved <=>
              /\ vresp.checks.aadhaar.valid
              /\ vresp.checks.pan.valid
              /\ vresp.checks.name_cross_check.match
              /\ vresp.checks.face_match.verified
        /\ ~vresp.checks.face_match.verified => ~vresp.approved

\* C1 witness: both documents valid, names matching, face unverified, rejected.
C1_Witness ==
    /\ vresp.status = 200
    /\ vresp.checks.aadhaar.valid
    /\ vresp.checks.pan.valid
    /\ vresp.checks.name_cross_check.match
    /\ ~vresp.checks.face_match.verified
    /\ ~vresp.approved

\* C2: once a field holds a non-empty value, no transcript update (final or
\* interim), stop or timer expiry of the extractor changes that value.
C2_FilledNeverChanged ==
    [][\A f \in FieldKeys : data[f] # <<>> => data'[f] = data[f]]_vars
\* the name is filled with "Asha Rao", the cursor still rests on it, and the
\* same utterance has been submitted again and processed
C2_Witness ==
    /\ data["name"] = NameAsha
    /\ lastTranscriptRef = SayName
    /\ transcript = SayName \o <<" ">>

\* C3: in every reachable state, a set cursor points to an unfilled field.
C3_ActiveFieldUnfilled == activeField # Null => data[activeField] = <<>>

\* C4: when the active, unfilled field receives an accepted value, the
\* transcript buffer is cleared, that field's timer is cancelled, and the
\* cursor is on the first unfilled field in fieldOrder (Null when there is
\* none) without any further transcript.  (No utterance of the model yields
\* the sentinel, so a value other than the sentinel is an accepted one.)
C4_AcceptanceAdvances ==
    [][(/\ activeField # Null
        /\ data[activeField] = <<>>
        /\ data'[activeField] # <<>>
        /\ data'[activeField] # NotRecognized)
       => (/\ transcript' = <<>>
           /\ interimTranscript' = <<>>
           /\ timeoutRef' # activeField
           /\ activeField' = NextEmpty(data'))]_vars

\* C5: the timer expiry fills the field it was started for with the sentinel
\* and the cursor advances to the next unfilled field.
C5_TimeoutAdvances ==
    [][(/\ timeoutRef # Null
        /\ data[timeoutRef] = <<>>
        /\ data'[timeoutRef] = NotRecognized)
       => activeField' = NextEmpty(data')]_vars

\* C6: from any state where a field is active and unfilled, given that pending
\* timers fire, the session eventually has all four fields filled, whatever
\* transcripts arrive (none included).
C6_NoStall == (activeField # Null /\ data[activeField] = <<>>) ~> isComplete


\* C7: in the document step a capture reaches ocr only through an accepted
\* frame.  The audit request issued after the analysis is document_capture
\* with status success for an accepted frame and retry for a rejected one;
\* a rejected capture leaves the step at document, stores no frame and
\* surfaces a rejection reason; an accepted one stops the live feed and
\* stores the frame.
C7_CaptureGated ==
    [][/\ (kyc.step = "document" /\ kyc'.step # "document")
            => (kyc'.step = "ocr" /\ capture.pc = "audit" /\ capture.quality.isAcceptable)
       /\ (capture.kind = "document" /\ capture.pc = "analyze" /\ capture'.pc = "audit")
            => /\ lastAudit'.step = "document_capture"
               /\ lastAudit'.status = IF capture'.quality.isAcceptable THEN "success"
                                      ELSE "retry"
       /\ (capture.kind = "document" /\ capture.pc = "audit" /\ capture'.pc # "audit")
            => IF capture.quality.isAcceptable
               THEN /\ kyc'.step = "ocr"
                    /\ ~cam'.isStreaming /\ ~cam'.streamLive
                    /\ kyc'.capturedImage = capture.frame
               ELSE /\ kyc'.step = "document"
                    /\ kyc'.capturedImage = Null
                    /\ kyc'.qualityIssue # Null]_vars

\* C8: the step leaves ocr forward (to pan with two documents, to selfie with
\* one) only when the first document's match outcome is success or partial;
\* otherwise the only step after ocr is document.
C8_OcrForwardGated ==
    [][(kyc.step = "ocr" /\ kyc'.step # "ocr")
         => \/ kyc'.step = "document"
            \/ /\ kyc.matchStatus \in {"success", "partial"}
               /\ kyc'.step = IF env.variant = "two" THEN "pan" ELSE "selfie"]_vars
\* the ocr step showing an outcome of none, its controls live
C8_Witness ==
    /\ kyc.step = "ocr" /\ kyc.matchStatus = "none"
    /\ ~kyc.isProcessing /\ ~kyc.isAnalyzing /\ kyc.ocrResult # Null

\* C9: the step changes only along the listed edges.
C9_StepEdges ==
    [][kyc'.step # kyc.step
         => <<kyc.step, kyc'.step>> \in
               {<<"start", "document">>, <<"document", "ocr">>, <<"ocr", "document">>,
                <<"pan", "pan_ocr">>, <<"pan_ocr", "pan">>, <<"pan_ocr", "selfie">>,
                <<"selfie", "result">>, <<"result", "start">>}
               \cup (IF env.variant = "two" THEN {<<"ocr", "pan">>}
                     ELSE {<<"ocr", "selfie">>})]_vars
\* the two-document flow at its last step, every edge of the forward path
\* behind it
C9_Witness ==
    /\ env.variant = "two" /\ kyc.step = "result"
    /\ kyc.capturedPanImage # Null /\ kyc.selfieImage # Null

\* C10: when a finalize call holding the three images gets a successful
\* response, kycApproved becomes the response's approved flag; when the
\* request throws, the response is not successful or an image is missing,
\* kycApproved becomes the local rule over the call's match outcomes and face
\* status.  The one-document page has no second document and no endpoint
\* call: its finalize sets kycApproved to the local rule without that clause.
C10_FinalizeDecision ==
    [][/\ \A i \in 1..Len(fins), response \in Responses :
             (Len(fins') < Len(fins) /\ FinalizeDone(i, response))
               => kyc'.kycApproved =
                     IF /\ fins[i].capturedImage # Null /\ fins[i].capturedPanImage # Null
                        /\ fins[i].selfieImage # Null /\ response.kind = "ok"
                     THEN response.approved
                     ELSE /\ fins[i].matchStatus \in {"success", "partial"}
                          /\ fins[i].panMatchStatus \in {"success", "partial"}
                          /\ fins[i].faceStatus \in {"detected", "skipped"}
       /\ (kyc.step = "selfie" /\ kyc'.step = "result" /\ fins' = fins)
             => kyc'.kycApproved =
                   /\ kyc.matchStatus \in {"success", "partial"}
                   /\ env.variant = "two" => kyc.panMatchStatus \in {"success", "partial"}
                   /\ kyc.faceStatus \in {"detected", "skipped"}]_vars
\* the endpoint refused an application that the local rule would approve
C10_Witness ==
    /\ env.variant = "two" /\ kyc.step = "result" /\ ~kyc.isVerifying
    /\ kyc.backendResult = BackendData(FALSE) /\ ~kyc.kycApproved
    /\ lastAudit.step = "final_result" /\ LocalRule(lastAudit.details)


\* C11: restart is offered in every step.  In start it would change nothing,
\* so the property is stated for the six other steps: a button or a voice
\* command that runs handleRestart is available.
C11_RestartEverywhere == kyc.step # "start" => \E via \in Vias : CanRestart(via)

\* C12: while the step is start every captured frame, recognition result,
\* match status, the face status and the backend report are null and
\* kycApproved is false, whatever was in flight when restart was issued.
C12_RestartDiscards ==
    kyc.step = "start"
      => /\ kyc.capturedImage = Null /\ kyc.capturedPanImage = Null /\ kyc.selfieImage = Null
         /\ kyc.ocrResult = Null /\ kyc.panOcrResult = Null
         /\ kyc.matchStatus = Null /\ kyc.panMatchStatus = Null /\ kyc.faceStatus = Null
         /\ kyc.backendResult = NoBackendData /\ ~kyc.kycApproved

\* C13: when the camera acquisition of an action fails, an error is set and
\* the step is the one before the action: the failure leaves the step alone,
\* and the action had not set a new step before it asked for the camera.
C13_CameraFailureKeepsStep ==
    [][\A i \in 1..Len(cam.pending) :
          (cam'.pending = Without(cam.pending, i) /\ ~cam'.isStreaming)
            => (cam'.error # Null /\ kyc'.step = kyc.step /\ ~cam.pending[i])]_vars


\* C14: a capture whose frame loaded completes its state updates (the
\* analysing flag is cleared again) whether or not the audit write returns.
C14_AuditNeverBlocks ==
    (capture.pc = "analyze" /\ capture.frame = Frame) ~> ~kyc.isAnalyzing


\* C15: when the recognition of an accepted first-document capture returns,
\* the handler has issued one document_capture request with status success
\* and now issues one ocr_validation request, whose status is success when
\* an Aadhaar or a PAN card was recognised.
C15_CaptureThenOcrAudit ==
    [][(capture.kind = "document" /\ capture.pc = "ocr" /\ capture'.pc = "idle"
        /\ kyc'.ocrResult # Null)
         => /\ capture.audits = << <<"document_capture", "success">> >>
            /\ lastAudit'.step = "ocr_validation"
            /\ kyc'.ocrResult \in {"aadhaar", "pan"} => lastAudit'.status = "success"]_vars
\* an Aadhaar card recognised, its ocr_validation request the last one issued
C15_Witness ==
    /\ kyc.step = "ocr" /\ kyc.ocrResult = "aadhaar" /\ capture.pc = "idle"
    /\ lastAudit.step = "ocr_validation" /\ lastAudit.status = "success"

\* C16: a finalize that completes issues one final_result request, whose
\* status is success iff kycApproved is set to true and whose details are the
\* match statuses and face status the call decided on; a finalize that waits
\* for the endpoint has issued none yet.
C16_FinalResultAudit ==
    [][/\ Len(fins') < Len(fins)
            => /\ lastAudit'.step = "final_result"
               /\ (lastAudit'.status = "success") = kyc'.kycApproved
               /\ \E i \in 1..Len(fins) :
                     /\ fins' = Without(fins, i)
                     /\ lastAudit'.details.matchStatus = fins[i].matchStatus
                     /\ lastAudit'.details.panMatchStatus = fins[i].panMatchStatus
                     /\ lastAudit'.details.faceStatus = fins[i].faceStatus
       /\ (kyc.step = "selfie" /\ kyc'.step = "result" /\ fins' = fins)
            => /\ lastAudit'.step = "final_result"
               /\ (lastAudit'.status = "success") = kyc'.kycApproved
               /\ lastAudit'.details.matchStatus = kyc.matchStatus
               /\ lastAudit'.details.faceStatus = kyc.faceStatus
       /\ Len(fins') > Len(fins) => lastAudit' = lastAudit]_vars
\* a refusal by the endpoint, audited as a failure
C16_Witness ==
    /\ kyc.step = "result" /\ ~kyc.isVerifying /\ ~kyc.kycApproved /\ fins = <<>>
    /\ lastAudit.step = "final_result" /\ lastAudit.status = "failure"
    /\ lastAudit.details.faceStatus \in {"detected", "skipped"}


C18_FaceFailurePermissive ==
    [][FaceSettles(CompareFaces([threw |-> TRUE]))
         => /\ vresp'.status = 200
            /\ vresp'.checks.face_match.verified
            /\ vresp'.checks.face_match.confidence = 70
            /\ vresp'.checks.face_match.reason = "Face check skipped (error)"
            /\ vresp'.approved <=>
                  /\ vresp'.checks.aadhaar.valid
                  /\ vresp'.checks.pan.valid
                  /\ vresp'.checks.name_cross_check.match]_vars
\* an application approved on the fallback face result
C18_Witness ==
    /\ vresp.status = 200
    /\ vresp.checks.face_match.model = "fallback"
    /\ vresp.checks.face_match.confidence = 70
    /\ vresp.approved

\* C19: when an AI call of a document extraction throws, that extraction
\* does not reject and the request is not answered with an error.
C19_ExtractionThrowCaught ==
    [][\A d \in Docs :
          GptThrows(d) => (vdoc'[d].pc # "threw" /\ vresp'.status # 500)]_vars

\* C20: parseGptJson raises for no response text.
C20_ParseNeverRaises == pout.kind # "throw"


\* C21: in a report the name cross-check passes iff: with both document names
\* non-empty, their similarity is at least 40; with exactly one document name
\* non-empty (from either document) and a declared name given, the similarity
\* of that name and the declared name is at least 40; otherwise always.
C21_NameCrossCheck ==
    vresp.status = 200 =>
        LET a == vresp.checks.name_cross_check.aadhaar_name
            p == vresp.checks.name_cross_check.pan_name
            o == Trim(vreq.onboarding_name)
        IN  vresp.checks.name_cross_check.match <=>
              IF a # <<>> /\ p # <<>> THEN NameSimilarityPct(a, p) >= 40
              ELSE IF (a # <<>> \/ p # <<>>) /\ o # <<>>
              THEN NameSimilarityPct(IF a # <<>> THEN a ELSE p, o) >= 40
              ELSE TRUE


\* C22: the similarity of two names is 0 when either is empty, otherwise
\* round(100 * |A \cap B| / |A \cup B|) over their lowercase word sets A and
\* B; it is 100 when the word sets are equal, whatever the order and the case
\* of the words; it is the same both ways round; it lies in 0..100.
C22_NameSimilarity ==
    simOut.called =>
        LET A == Range(SplitWords(ToLowerCase(simA)))
            B == Range(SplitWords(ToLowerCase(simB)))
        IN  /\ (simA = <<>> \/ simB = <<>>) => simOut.ab = 0
            /\ (simA # <<>> /\ simB # <<>>)
                 => simOut.ab = RoundDiv(100 * Cardinality(A \cap B), Cardinality(A \cup B))
            /\ (simA # <<>> /\ simB # <<>> /\ A = B) => simOut.ab = 100
            /\ simOut.ab = simOut.ba
            /\ simOut.ab \in 0..100
\* "a b" against "b A": the same words in another order and case
C22_Witness ==
    /\ simA = <<"a", " ", "b">> /\ simB = <<"b", " ", "A">>
    /\ simOut.called /\ simOut.ab = 100


\* C23: the QualityResult that analyzeImage has returned to a capture has
\* isAcceptable true iff its issue is null.
C23_AcceptableIffNoIssue ==
    capture.pc = "audit" => (capture.quality.isAcceptable <=> capture.quality.issue = Null)


\* C24: every step of the audit endpoints leaves the log as it is or adds one
\* entry at its end, with an id no earlier entry has and the time of the write
\* as its timestamp; and a list response carries the whole log in its order.
C24_AppendOnly ==
    [][/\ \/ auditLog' = auditLog
          \/ /\ Len(auditLog') = Len(auditLog) + 1
             /\ SubSeq(auditLog', 1, Len(auditLog)) = auditLog
             /\ auditLog'[Len(auditLog')].timestamp = auditNow
             /\ \A i \in 1..Len(auditLog) : auditLog[i].id # auditLog'[Len(auditLog')].id
       /\ auditListed' # auditListed
            => (auditListed'.present /\ auditListed'.logs = auditLog)]_vars
\* two entries of different users, written at different times, listed in
\* the order of their writes
C24_Witness ==
    /\ Len(auditLog) = 2
    /\ auditLog[1].userId = "u1" /\ auditLog[2].userId = "anonymous"
    /\ auditLog[1].timestamp < auditLog[2].timestamp
    /\ auditListed.present /\ auditListed.logs = auditLog


\* C25: when the selfie handler settles the face status without a
\* FaceDetector, or because detector.detect threw, the status is skipped, the
\* selfie_capture request has status success, and the confirm control of the
\* selfie step is offered.
C25_NoDetectorSkips ==
    [][(/\ kyc.step = "selfie" /\ kyc.faceStatus = Null /\ kyc'.faceStatus # Null
        /\ (~env.faceDetector \/ DetectSettles("threw")))
         => /\ kyc'.faceStatus = "skipped"
            /\ lastAudit'.step = "selfie_capture" /\ lastAudit'.status = "success"
            /\ kyc'.step = "selfie" /\ kyc'.selfieImage # Null /\ ~kyc'.isAnalyzing]_vars
\* no FaceDetector in the browser, and the flow has reached its result
C25_Witness ==
    /\ ~env.faceDetector /\ kyc.step = "result" /\ kyc.faceStatus = "skipped"
    /\ lastAudit.step = "final_result"


\* C26: when the recognition of the first document returns, the match status
\* becomes success if the recognised type is not unknown and none if it is,
\* whatever identifier was extracted, and the ocr_validation request has
\* status success iff the match status is success.
C26_MatchByTypeOnly ==
    [][(capture.kind = "document" /\ capture.pc = "ocr" /\ capture'.pc = "idle"
        /\ kyc'.ocrResult # Null)
         => /\ kyc'.matchStatus = IF kyc'.ocrResult = "unknown" THEN "none" ELSE "success"
            /\ lastAudit'.step = "ocr_validation"
            /\ lastAudit'.details.docType = kyc'.ocrResult
            /\ (lastAudit'.status = "success") <=> (kyc'.matchStatus = "success")]_vars
\* a card whose identifier is not the one of the onboarding record, matched
C26_Witness ==
    /\ kyc.step = "ocr" /\ kyc.ocrResult = "pan" /\ kyc.matchStatus = "success"
    /\ lastAudit.step = "ocr_validation" /\ lastAudit.status = "success"
    /\ lastAudit.details.extractedId = "other"


\* C27: while a capture is in flight (its analysis, audit write, recognition
\* or face detection pending) no capture can be started, by button or voice.
C27_OneCaptureInFlight ==
    capture.pc # "idle" => ~ENABLED (CaptureDocument \/ CapturePan \/ CaptureSelfie)
\* a frame being analysed while the camera is still streaming
C27_Witness ==
    /\ capture.pc = "analyze" /\ capture.frame = Frame
    /\ cam.isStreaming /\ kyc.step = "document" /\ kyc.isAnalyzing


\* C28: in the steps start, ocr, pan_ocr and result no camera stream is live.
C28_NoStreamOutsideCapture ==
    kyc.step \in {"start", "ocr", "pan_ocr", "result"} => ~cam.streamLive


\* C29: the recogniser is never listening while a prompt is speaking: no
\* reachable state has both isListening and isSpeaking.
C29_NeverListeningWhileSpeaking == ~(isListening /\ isSpeaking)


C31_NoDeadEnd ==
    (cam.pending = <<>> /\ capture.pc = "idle" /\ fins = <<>>)
    => ENABLED (StartKyc \/ SwitchCamera \/ CaptureDocument \/ CapturePan \/ CaptureSelfie
                \/ ProceedFromOcr \/ RetakeDocument \/ ProceedToSelfie \/ RetakePan
                \/ RetakeSelfie \/ Finalize \/ Restart)


\* C32: within one verify call the face-comparison call is in flight only
\* when both document extractions have completed, and an extraction issues
\* its type-specific call only from its generic call (never without it or
\* after it has finished); the two extractions run side by side.
C32_FaceAfterExtractions ==
    [][/\ vpc' = "face" => \A d \in Docs : vdoc'[d].pc = "done"
       /\ \A d \in Docs :
            (vdoc'[d].pc \in {"second_aadhaar", "second_pan"} /\ vdoc'[d].pc # vdoc[d].pc)
            => vdoc[d].pc = "first"]_vars
\* the face call is in flight after the first document went through both
\* passes as an Aadhaar card and the second through both as a PAN card
C32_Witness ==
    /\ vpc = "face"
    /\ vdoc["doc1"].result.doc_type = "aadhaar"
    /\ vdoc["doc2"].result.doc_type = "pan"


\* C33: between two clears of the transcript buffer no combined text is run
\* through the pattern matching a second time, however it arrived.
C33_MatchedAtMostOnce == ~matchedTwice

\* C33 (the guard itself): an update whose combined text equals the last
\* processed text writes no field and leaves the cursor where it is.
C33_SameTextSkipped ==
    [][(lastTranscriptRef # <<>>
        /\ FullText(transcript', interimTranscript') = lastTranscriptRef)
       => (data' = data /\ activeField' = activeField)]_vars


\* the gate of a field, written out: a PAN of exactly 10 characters without
\* spaces or hyphens, an Aadhaar number as three groups of four digits, a
\* name of at least 3 characters
PassesGate(field, value) ==
    CASE field = "pan" -> /\ Len(value) = 10
                          /\ \A i \in 1..Len(value) : value[i] \notin {" ", "-"} \cup LowerChars
      [] field = "aadhaar" -> /\ Len(value) = 14
                              /\ \A i \in 1..14 : IF i \in {5, 10} THEN value[i] = " "
                                                  ELSE value[i] \in DigitChars
      [] field = "name" -> Len(value) >= 3
      [] field = "dob" -> TRUE
\* the gate-passing values the patterns of a field yield for a text
Candidates(field, fieldPatterns, text) ==
    {v \in {Formatted(field, Match1(fieldPatterns[k], text)) : k \in 1..Len(fieldPatterns)} :
        v # <<>>}

\* C34 (first version of the hook): a value is stored only if it passes the
\* gate of the active field, and a candidate that fails the gate does not
\* stop the loop: whenever some pattern yields a passing value, one is stored.
C34_ValidityGate ==
    gateOut.done =>
        /\ gateOut.v1 # <<>> => PassesGate(gateField, gateOut.v1)
        /\ Candidates(gateField, patterns(gateField), gateText) # {} => gateOut.v1 # <<>>

\* C34 (second version of the hook): the same for the loop of lines 242-279.
C34_ValidityGateV2 ==
    gateOut.done =>
        /\ gateOut.v2 # <<>> => PassesGate(gateField, gateOut.v2)
        /\ Candidates(gateField, patternsV2(gateField), gateText) # {} => gateOut.v2 # <<>>


\* C35: a transcript update or a timer expiry changes no field of the
\* onboarding record other than the field that was active before it, even
\* when the text matches the patterns of another field.
C35_OnlyActiveFieldWritten ==
    [][\A f \in FieldKeys : data'[f] # data[f] => f = activeField]_vars
\* the name is active and unfilled, and a text holding a PAN number was run
\* through the name's patterns; the PAN field is still empty
C35_Witness ==
    /\ activeField = "name"
    /\ data["name"] = <<>>
    /\ data["pan"] = <<>>
    /\ (SayUm \o <<" ">> \o SayPan) \in matchedTexts


\* C36: a final decision taken without a verification-endpoint response (the
\* one-document page, or the two-document page's local fallback) is always
\* an approval: its final_result audit has status success and the page shows
\* the approval when the decision is taken.  Finalize is taken only from
\* states whose match statuses are success and whose face status passes.
C36_LocalDecisionApproves ==
    [][/\ (kyc.step = "selfie" /\ kyc'.step = "result")
          => /\ kyc.matchStatus = "success"
             /\ env.variant = "two" => kyc.panMatchStatus = "success"
             /\ kyc.faceStatus \in {"detected", "skipped"}
       /\ (lastAudit' # lastAudit /\ lastAudit'.step = "final_result"
           /\ ~lastAudit'.details.backend.present)
          => (lastAudit'.status = "success" /\ kyc'.kycApproved)]_vars
\* the two-document page decided locally after the endpoint failed
C36_Witness ==
    /\ env.variant = "two"
    /\ kyc.step = "result" /\ ~kyc.isVerifying
    /\ lastAudit.step = "final_result"
    /\ ~lastAudit.details.backend.present
    /\ kyc.capturedPanImage # Null


\* C37: in the two-document variant a second-document capture whose analysis
\* returns is always accepted: its document_capture audit has status
\* success, the frame is stored and the controller moves to pan_ocr whatever
\* the quality result; and when the recognition returns, the match status is
\* success, the stored type is never unknown and the audited identifier is
\* never missing.
C37_PanAlwaysAccepted ==
    [][/\ (capture.kind = "pan" /\ capture.pc = "analyze" /\ capture'.pc = "audit")
          => (lastAudit'.step = "document_capture" /\ lastAudit'.status = "success")
       /\ (capture.kind = "pan" /\ capture.pc = "audit" /\ capture' # capture)
          => /\ capture'.pc = "ocr"
             /\ kyc'.step = "pan_ocr"
             /\ kyc'.capturedPanImage = capture.frame
             /\ kyc'.panQualityIssue = Null
       /\ (capture.kind = "pan" /\ capture.pc = "ocr" /\ capture'.pc = "idle"
           /\ lastAudit'.step = "ocr_validation")
          => /\ kyc'.panMatchStatus = "success"
             /\ kyc'.panOcrResult \in {"pan", "aadhaar"}
             /\ lastAudit'.status = "success"
             /\ lastAudit'.details.docType = kyc'.panOcrResult
             /\ lastAudit'.details.extractedId # "none"]_vars
\* a blurred second-document frame, stored and handed to the recogniser
C37_Witness ==
    /\ capture.kind = "pan" /\ capture.pc = "ocr"
    /\ capture.quality.issue = "blur"
    /\ kyc.step = "pan_ocr" /\ kyc.capturedPanImage = Frame


\* C38: every stream with running tracks is the stream the hook holds in
\* streamRef, so at most one stream is live at any time.
C38_OnlyHeldStreamLive ==
    \A i \in StreamIds : streams[i].state = "live" => streamRef = i


\* C39: every capture attempt terminates: after a document capture action the
\* analyzing flag eventually returns to false, because quality analysis always
\* yields a QualityResult, also for a captured frame that cannot be decoded as
\* an image.
C39_CaptureTerminates ==
    (capture.pc = "analyze" /\ capture.kind = "document" /\ kyc.isAnalyzing)
        ~> ~kyc.isAnalyzing
\* The same for the frames from which an image loads: it holds.
C39_DecodableCaptureTerminates ==
    (capture.pc = "analyze" /\ capture.kind = "document" /\ capture.frame = Frame
     /\ kyc.isAnalyzing) ~> ~kyc.isAnalyzing

=============================================================================
